---- MODULE Spec2Model ----
(***************************************************************************)
(* Model of the parallel prefix-scan library (stefan-blair/blelloch-scan): *)
(* the Scanner of src/src/prefix_scans with its four scans, the           *)
(* SplitVector partition primitive and the ThreadPool they run on.        *)
(*                                                                         *)
(* Rust vectors are modelled as functions over 0..len-1, so that indices   *)
(* in the model are the indices of the source.  u64 additions are modelled *)
(* on the naturals: the inputs are bounded far below 2^64.  The elements   *)
(* of an input are 0 or 1: the scans only combine elements, so the unit    *)
(* vectors among these inputs fix how often each element enters each       *)
(* output.                                                                 *)
(***************************************************************************)
EXTENDS Integers, Sequences, FiniteSets, TLC

\* ---------------------------------------------------------------------
\* Bounds of the model
\* ---------------------------------------------------------------------
MaxLen == 8
MaxThreads == 3
MaxSeqLen == 2
MaxCacheLen == 3
MaxChunks == 8
MaxSvLen == 3
MaxOffsets == 3
MaxPool == 4
MaxLiveLen == 4
MaxRanges == 3
MaxTotal == 3
MaxSegments == 2
MaxSegmentLen == 2
MaxExpected == 3
MaxSent == 3

\* Scanner::new(): cache_chunk_length default
CacheChunkLengthDefault == 262144

\* ---------------------------------------------------------------------
\* Vec<T> helpers (0-based)
\* ---------------------------------------------------------------------
EmptyVec == [i \in {} |-> 0]

VecLen(v) == Cardinality(DOMAIN v)

VecOf(n, val) == [i \in 0..(n - 1) |-> val]

\* all vectors of length 0..n over the set S
VecsUpTo(n, S) == UNION {[0..(k - 1) -> S] : k \in 0..n}

Min(a, b) == IF a < b THEN a ELSE b

\* ---------------------------------------------------------------------
\* The combining operator: u64 addition, or the fn(&T, &T) -> T of the
\* generic scan ("concat" is string concatenation, T::default() = "")
\* ---------------------------------------------------------------------
Funcs == {"add", "concat"}

func_apply(f, a, b) == IF f = "add" THEN a + b ELSE a \o b

default_value(f) == IF f = "add" THEN 0 ELSE <<>>

\* ---------------------------------------------------------------------
\* helper_functions.rs
\* ---------------------------------------------------------------------
\* chunk_ranges whose small ranges forget the stragglers before them
chunk_ranges_no_stragglers(len, num_chunks) ==
    LET chunk_size == len \div num_chunks
        stragglers == len % num_chunks
    IN  [i \in 0..num_chunks |->
            IF i < stragglers THEN i * (chunk_size + 1)
                              ELSE i * chunk_size]

\* chunk_ranges that leaves all the stragglers to the last chunk
chunk_ranges_tail_heavy(len, num_chunks) ==
    LET chunk_size == len \div num_chunks
    IN  [i \in 0..num_chunks |-> IF i < num_chunks THEN i * chunk_size ELSE len]

chunk_ranges(len, num_chunks) ==
    LET chunk_size == len \div num_chunks
        stragglers == len % num_chunks
    IN  [i \in 0..num_chunks |->
            IF i < stragglers THEN i * (chunk_size + 1)
                              ELSE i * chunk_size + stragglers]

RECURSIVE prefix_scan_from(_, _, _, _)
\* for i in from..hi { data[i] += data[i - 1] } restricted to the slice [lo, hi)
prefix_scan_from(buf, lo, hi, i) ==
    IF i >= hi THEN buf
    ELSE IF i > lo
         THEN prefix_scan_from([buf EXCEPT ![i] = buf[i] + buf[i - 1]], lo, hi, i + 1)
         ELSE prefix_scan_from(buf, lo, hi, i + 1)

\* in-place inclusive scan of the slice buf[lo..hi)
prefix_scan_no_simd(buf, lo, hi) == prefix_scan_from(buf, lo, hi, lo + 1)

\* one 8-lane block of the vectorised scan: the lanes of buf[b..b+8) with
\* the accumulator added to lane 0, then three shift-and-add rounds
simd_block(buf, b, acc) ==
    LET a0 == [j \in 0..7 |-> buf[b + j] + (IF j = 0 THEN acc ELSE 0)]
        a1 == [j \in 0..7 |-> a0[j] + (IF j >= 1 THEN a0[j - 1] ELSE 0)]
        a2 == [j \in 0..7 |-> a1[j] + (IF j >= 2 THEN a1[j - 2] ELSE 0)]
        a3 == [j \in 0..7 |-> a2[j] + (IF j >= 4 THEN a2[j - 4] ELSE 0)]
    IN  a3

RECURSIVE prefix_scan_simd_blocks(_, _, _, _, _)
prefix_scan_simd_blocks(buf, lo, simd_len, i, acc) ==
    IF i >= simd_len THEN buf
    ELSE LET a == simd_block(buf, lo + i, acc)
         IN  prefix_scan_simd_blocks(
                 [p \in DOMAIN buf |->
                     IF p >= lo + i /\ p < lo + i + 8 THEN a[p - lo - i] ELSE buf[p]],
                 lo, simd_len, i + 8, a[7])

\* in-place inclusive scan of the slice buf[lo..hi), 8 lanes at a time,
\* the stragglers by the scalar loop
prefix_scan_simd(buf, lo, hi) ==
    LET simd_len == ((hi - lo) \div 8) * 8
        blocks == prefix_scan_simd_blocks(buf, lo, simd_len, 0, 0)
    IN  prefix_scan_from(blocks, lo, hi, lo + simd_len)

RECURSIVE slice_sum(_, _, _)
slice_sum(buf, lo, hi) ==
    IF lo >= hi THEN 0 ELSE buf[lo] + slice_sum(buf, lo + 1, hi)

\* sum of the slice buf[lo..hi)
quicksum_simd(buf, lo, hi) == slice_sum(buf, lo, hi)

\* adds value to every element of the slice buf[lo..hi)
add_to_all_simd(value, buf, lo, hi) ==
    [p \in DOMAIN buf |-> IF p >= lo /\ p < hi THEN buf[p] + value ELSE buf[p]]

\* ---------------------------------------------------------------------
\* Option<T>
\* ---------------------------------------------------------------------
None == [some |-> FALSE]

Some(x) == [some |-> TRUE, val |-> x]

\* ---------------------------------------------------------------------
\* util/ranged_vector.rs
\* ---------------------------------------------------------------------
RangedVector_new(points, values) ==
    [i \in DOMAIN values |->
        [start |-> points[i], end |-> points[i + 1], value |-> values[i], index |-> i]]

\* a get that takes the end of a range for one of its points
RangedVector_get_end_inclusive(ranges, point) ==
    LET hits == {i \in DOMAIN ranges : point <= ranges[i].end}
    IN  IF hits = {} THEN None
        ELSE Some(ranges[CHOOSE i \in hits : \A j \in hits : i <= j])

\* RangedVector::get: the first range that ends after point
RangedVector_get(ranges, point) ==
    LET hits == {i \in DOMAIN ranges : point < ranges[i].end}
    IN  IF hits = {} THEN None
        ELSE Some(ranges[CHOOSE i \in hits : \A j \in hits : i <= j])

RangedVector_get_range(ranges, index) ==
    IF index < VecLen(ranges) THEN Some(ranges[index]) ELSE None

RangedVector_next_range(ranges, range) ==
    IF range.index < VecLen(ranges) - 1 THEN Some(ranges[range.index + 1]) ELSE None

\* ---------------------------------------------------------------------
\* split_vector.rs
\* ---------------------------------------------------------------------
\* SplitVector::chunk that checks the last offset only, not the order
SplitVector_chunk_unordered(offsets, len, strong_count) ==
    LET n == VecLen(offsets)
    IN  IF n = 0 THEN None
        ELSE IF offsets[n - 1] > len THEN None
        ELSE IF strong_count # 1 THEN None
        ELSE Some([i \in 0..(n - 2) |-> [start |-> offsets[i], end |-> offsets[i + 1]]])

\* SplitVector::chunk on a buffer of len elements whose Arc has
\* strong_count owners; a chunk is the pair of its bounds [start, end)
SplitVector_chunk(offsets, len, strong_count) ==
    LET n == VecLen(offsets)
    IN  IF n = 0 THEN None
        ELSE IF offsets[n - 1] > len THEN None
        ELSE IF strong_count # 1 THEN None
        ELSE IF \E i \in 0..(n - 2) : offsets[i] >= offsets[i + 1] THEN None
        ELSE Some([i \in 0..(n - 2) |-> [start |-> offsets[i], end |-> offsets[i + 1]]])

\* the chunks pushed to the Vec `chunks`, each with a clone of the Arc, when
\* chunk returns: those before the first pair of offsets it rejects
SplitVector_chunk_pushed(offsets, len, strong_count) ==
    LET n == VecLen(offsets)
        bad == {i \in 0..(n - 2) : offsets[i] >= offsets[i + 1]}
    IN  IF n = 0 THEN 0
        ELSE IF offsets[n - 1] > len THEN 0
        ELSE IF strong_count # 1 THEN 0
        ELSE IF bad # {} THEN CHOOSE i \in bad : \A j \in bad : i <= j
        ELSE n - 1

\* a chunk that returns None and leaves the first chunk it pushed alive
SplitVector_chunk_dropped_but_first(offsets, len, strong_count) ==
    LET pushed == SplitVector_chunk_pushed(offsets, len, strong_count)
    IN  IF SplitVector_chunk(offsets, len, strong_count).some \/ pushed = 0 THEN 0
        ELSE pushed - 1

\* the chunks of `chunks` dropped, with their clones of the Arc, when chunk
\* returns: all of them at a `return None`, none when it returns Some(chunks)
SplitVector_chunk_dropped(offsets, len, strong_count) ==
    IF SplitVector_chunk(offsets, len, strong_count).some THEN 0
    ELSE SplitVector_chunk_pushed(offsets, len, strong_count)

\* extract that takes the buffer whoever else holds it
SplitVector_extract_unchecked(buf, strong_count) == Some(buf)

\* SplitVector::extract / view_mut / Arc::try_unwrap: only the sole owner
SplitVector_extract(buf, strong_count) ==
    IF strong_count = 1 THEN Some(buf) ELSE None

\* ---------------------------------------------------------------------
\* prefix_scans/blelloch_scan.rs
\* ---------------------------------------------------------------------
RECURSIVE Pow2(_)
Pow2(i) == IF i = 0 THEN 1 ELSE 2 * Pow2(i - 1)

\* (len as f64).log2().ceil() as usize; the cast saturates -inf to 0
CeilLog2(len) ==
    IF len <= 1 THEN 0
    ELSE CHOOSE k \in 1..len : Pow2(k) >= len /\ Pow2(k - 1) < len

\* ranges that share out the elements from step - 1 on evenly, wherever
\* the pairs of the step lie
pyramid_ranges_for_even(step, vec_len, num_thr, seq_len) ==
    LET rs == chunk_ranges(vec_len - (step - 1), Min(num_thr, vec_len - (step - 1)))
    IN  [i \in DOMAIN rs |-> rs[i] + step - 1]

\* ranges that give every operation a chunk of its own, however many
\* threads there are
pyramid_ranges_for_one_per_operation(step, vec_len, num_thr, seq_len) ==
    LET num_operands == vec_len \div step
        num_operations ==
            (num_operands \div 2)
            + (IF num_operands % 2 = 1 /\ vec_len % (step * 2) > 0 THEN 1 ELSE 0)
    IN  IF num_operations < seq_len
        THEN [i \in 0..0 |-> step - 1]
        ELSE LET rs == [i \in 0..num_operations |-> i * step * 2 + step - 1]
             IN  [rs EXCEPT ![VecLen(rs) - 1] = vec_len]

pyramid_ranges_for(step, vec_len, num_thr, seq_len) ==
    LET num_operands == vec_len \div step
        num_operations ==
            (num_operands \div 2)
            + (IF num_operands % 2 = 1 /\ vec_len % (step * 2) > 0 THEN 1 ELSE 0)
    IN  IF num_operations < seq_len
        THEN [i \in 0..0 |-> step - 1]
        ELSE LET operation_ranges ==
                     IF num_operations > num_thr
                     THEN chunk_ranges(num_operations, num_thr)
                     ELSE [i \in 0..num_operations |-> i]
                 rs == [i \in DOMAIN operation_ranges |->
                           operation_ranges[i] * step * 2 + step - 1]
             IN  [rs EXCEPT ![VecLen(rs) - 1] = vec_len]

\* pair_of without the rule that rounds an unpaired tail down to the last
\* element of the chunk
pair_of_no_tail(i, step, len) ==
    IF i + step < len THEN i + step ELSE -1

\* the partner of relative position i in a chunk of len elements, -1 for none
pair_of(i, step, len) ==
    IF i + step < len THEN i + step
    ELSE IF i < len - 1 THEN len - 1
    ELSE -1

RECURSIVE up_sweep_loop(_, _, _, _, _, _)
up_sweep_loop(buf, start, len, step, f, i) ==
    IF i >= len THEN buf
    ELSE LET pair == pair_of(i, step, len)
         IN  IF pair = -1
             THEN up_sweep_loop(buf, start, len, step, f, i + step * 2)
             ELSE up_sweep_loop(
                      [buf EXCEPT ![start + pair] =
                          func_apply(f, buf[start + i], buf[start + pair])],
                      start, len, step, f, i + step * 2)

\* the up-sweep closure on one chunk
up_sweep_task(buf, chunk, step, f) ==
    up_sweep_loop(buf, chunk.start, chunk.end - chunk.start, step, f, 0)

RECURSIVE down_sweep_loop(_, _, _, _, _, _)
down_sweep_loop(buf, start, len, step, f, i) ==
    IF i >= len THEN buf
    ELSE LET pair == pair_of(i, step, len)
         IN  IF pair = -1
             THEN down_sweep_loop(buf, start, len, step, f, i + step * 2)
             ELSE LET result == func_apply(f, buf[start + i], buf[start + pair])
                  IN  down_sweep_loop(
                          [buf EXCEPT ![start + i] = buf[start + pair],
                                      ![start + pair] = result],
                          start, len, step, f, i + step * 2)

\* the down-sweep closure on one chunk
down_sweep_task(buf, chunk, step, f) ==
    down_sweep_loop(buf, chunk.start, chunk.end - chunk.start, step, f, 0)

\* ---------------------------------------------------------------------
\* prefix_scans/hillis_steel_scan.rs
\* ---------------------------------------------------------------------
\* a do_step that reads from the start of the first task's range whatever
\* its own index
do_step_first_range(workspace, current, chunk, operation_ranges, index, step) ==
    LET start == operation_ranges[0]
    IN  [p \in DOMAIN workspace |->
            IF p >= chunk.start /\ p < chunk.end
            THEN current[start + (p - chunk.start)]
                 + current[start + (p - chunk.start) + step]
            ELSE workspace[p]]

\* a do_step that runs one position past the end of its chunk
do_step_overrun(workspace, current, chunk, operation_ranges, index, step) ==
    LET start == operation_ranges[index]
    IN  [p \in DOMAIN workspace |->
            IF p >= chunk.start /\ p <= chunk.end
            THEN current[start + (p - chunk.start)]
                 + current[start + (p - chunk.start) + step]
            ELSE workspace[p]]

\* do_step: chunk[i] = data[start + i] + data[start + i + step]
do_step(workspace, current, chunk, operation_ranges, index, step) ==
    LET start == operation_ranges[index]
    IN  [p \in DOMAIN workspace |->
            IF p >= chunk.start /\ p < chunk.end
            THEN current[start + (p - chunk.start)]
                 + current[start + (p - chunk.start) + step]
            ELSE workspace[p]]

\* ---------------------------------------------------------------------
\* prefix_scans/divide_and_conquer_scan.rs
\* ---------------------------------------------------------------------
\* first sweep of the post-scatter scan: local scan, returns the last element
post_local_task(buf, chunk) ==
    LET scanned == prefix_scan_simd(buf, chunk.start, chunk.end)
    IN  [buf |-> scanned, result |-> scanned[chunk.end - 1]]

\* second sweep of the post-scatter scan: chunk_start is relative to the
\* cache block, as are the ranges of carry_ranges
post_distribute_task(buf, chunk, chunk_start, carry_ranges) ==
    LET len == chunk.end - chunk.start
        carry_range == RangedVector_get(carry_ranges, chunk_start).val
        carry_range_distance == Min(len, carry_range.end - chunk_start)
        first == add_to_all_simd(carry_range.value, buf,
                                 chunk.start, chunk.start + carry_range_distance)
    IN  IF carry_range_distance < len
        THEN add_to_all_simd(RangedVector_next_range(carry_ranges, carry_range).val.value,
                             first, chunk.start + carry_range_distance, chunk.end)
        ELSE first

\* a closure that sums the range of worker 0 whatever its own index
pre_sum_task_first_range(buf, offsets, index) ==
    quicksum_simd(buf, offsets[0], offsets[1])

\* broadcast closure of the pre-scatter scan and of parallel_quicksum_simd
pre_sum_task(buf, offsets, index) ==
    quicksum_simd(buf, offsets[index], offsets[index + 1])

\* second dispatch of the pre-scatter scan: seed the carry, then scan
pre_scan_task(buf, chunk, carry) ==
    prefix_scan_simd([buf EXCEPT ![chunk.start] = buf[chunk.start] + carry],
                     chunk.start, chunk.end)

\* totals.pop(); prefix-sum the rest; carries = [0] ++ totals
carries_of(totals) ==
    LET n == VecLen(totals)
        popped == [i \in 0..(n - 2) |-> totals[i]]
        summed == prefix_scan_no_simd(popped, 0, n - 1)
    IN  [i \in 0..(n - 1) |-> IF i = 0 THEN 0 ELSE summed[i - 1]]

\* ---------------------------------------------------------------------
\* State
\* ---------------------------------------------------------------------
VARIABLES
    input,               \* the caller's data, cloned for every scan
    num_threads,         \* Scanner: thread_pool.num_threads()
    sequential_length,   \* Scanner: sequential_length
    cache_chunk_length,  \* Scanner: cache_chunk_length
    alg,                 \* the scan being run
    func,                \* its combining operator
    prev,                \* outcome of the caller's previous scan, if any
    pc,                  \* position of the calling thread
    ret,                 \* where the calling thread continues after gather()
    vec,                 \* the buffer being scanned (result_vec / workspace / vec)
    data,                \* hillis_steel_scan: the current buffer `data`
    iter,                \* blelloch_scan: position in the `steps` iterator
    step,                \* the step of the current pass
    cache_chunk_start,   \* divide and conquer: start of the current cache block
    ranges,              \* offsets of the current dispatch, as kept by the scan
    carries,             \* post-scatter: the RangedVector of carries
    queue,               \* ThreadPool: the task handed to each worker, not yet run
    chan,                \* the result channel of the current dispatch
    expected,            \* MassReceiver: expected_msg_count
    totals,              \* the Vec returned by the last gather()
    outcome,             \* how the scan ended
    result               \* the vector it returned

\* The library's building blocks, exercised on their own by a caller other
\* than the Scanner: a call of chunk_ranges, one SplitVector, one ThreadPool
VARIABLES
    cr_len,              \* chunk_ranges: the argument len
    cr_num_chunks,       \* chunk_ranges: the argument num_chunks
    cr_offsets,          \* chunk_ranges: the Vec it returned, None before the call
    sv_buffer,           \* SplitVector: the Vec inside the Arc
    sv_chunks,           \* SplitVector: the live SplitVectorChunks, as [start, end)
    sv_last,             \* SplitVector: the last operation, its argument and return
    sv_ref_count,        \* SplitVector: Arc::strong_count of the buffer
    tp_num_threads,      \* ThreadPool: threads.len()
    tp_queues,           \* ThreadPool: the channel into each RemoteThread
    tp_handles,          \* ThreadPool: one record per dispatch (channel, MassReceiver)
    tp_pc,               \* ThreadPool: position of the thread that owns the pool
    rv_ranges,           \* RangedVector: ranges
    rv_last,             \* RangedVector: the last call, its argument and return
    seg_v,               \* segmented_scan: the argument v, a list of sequences
    seg_num_threads,     \* segmented_scan: the argument num_threads
    seg_alg,             \* segmented_scan: the function called
    seg_chunk,           \* segmented_scan: the method behind SplitVector chunk(Vec)
    seg_pc,              \* segmented_scan: position of the calling thread
    seg_data,            \* segmented_scan: `data`
    seg_workspace,       \* segmented_scan: `workspace`
    seg_step,            \* segmented_scan: `step`
    seg_lefts,           \* segmented_scan: `lefts`
    seg_ret,             \* segmented_scan: what the function returned
    mr_expected_msg_count, \* MassReceiver: expected_msg_count
    mr_channel,          \* MassReceiver: the messages waiting in its receiver
    mr_senders,          \* MassReceiver: a clone of the channel's Sender is alive
    mr_results,          \* gather: `results`
    mr_i,                \* gather: iterations of its loop completed
    mr_pc,               \* gather: position of the thread that called it
    mr_ret               \* gather: what it returned

conf == <<input, num_threads, sequential_length, cache_chunk_length>>
call == <<alg, func, prev>>
bufs == <<vec, data>>
loop == <<iter, step, cache_chunk_start, ranges, carries>>
pool == <<queue, chan, expected, totals>>
ctl == <<pc, ret, outcome, result>>
cr_vars == <<cr_len, cr_num_chunks, cr_offsets>>
sv_vars == <<sv_buffer, sv_chunks, sv_last, sv_ref_count>>
tp_vars == <<tp_num_threads, tp_queues, tp_handles, tp_pc>>
rv_vars == <<rv_ranges, rv_last>>
seg_args == <<seg_v, seg_num_threads, seg_alg, seg_chunk>>
seg_locals == <<seg_data, seg_workspace, seg_step, seg_lefts>>
seg_vars == <<seg_args, seg_locals, seg_pc, seg_ret>>
mr_vars == <<mr_expected_msg_count, mr_channel, mr_senders, mr_results, mr_i, mr_pc, mr_ret>>
units == <<cr_vars, sv_vars, tp_vars, rv_vars, seg_vars, mr_vars>>
scanner == <<conf, call, bufs, loop, pool, ctl>>
vars == <<scanner, units>>

Values == {0, 1}
CacheLens == (1..MaxCacheLen) \cup {CacheChunkLengthDefault}

BlockedScans == {"divide_and_conquer_post_scatter_scan",
                 "divide_and_conquer_pre_scatter_scan"}

Algs == {"blelloch_scan", "blelloch_scan_generic", "hillis_steel_scan"}
            \cup BlockedScans

\* the argument vector of a scan with operator f: for "concat" the
\* elements are the one-letter strings of the caller's values
generic_arg(f, v) == IF f = "add" THEN v ELSE [i \in DOMAIN v |-> <<v[i]>>]

\* the locals of a scan before its first call
no_call ==
    /\ prev = None
    /\ ret = "call"
    /\ vec = EmptyVec
    /\ data = EmptyVec
    /\ iter = 0
    /\ step = 0
    /\ cache_chunk_start = 0
    /\ ranges = EmptyVec
    /\ carries = EmptyVec
    /\ queue = EmptyVec
    /\ chan = EmptyVec
    /\ expected = 0
    /\ totals = EmptyVec
    /\ outcome = "running"
    /\ result = EmptyVec

\* no call of chunk_ranges by the caller itself
no_chunk_ranges_call ==
    /\ cr_len = 0
    /\ cr_num_chunks = 1
    /\ cr_offsets = None

\* no SplitVector of the caller's own
no_split_vector ==
    /\ sv_buffer = EmptyVec
    /\ sv_chunks = <<>>
    /\ sv_last = [op |-> "none"]
    /\ sv_ref_count = 0

\* no ThreadPool of the caller's own
no_thread_pool ==
    /\ tp_num_threads = 1
    /\ tp_queues = <<>>
    /\ tp_handles = <<>>
    /\ tp_pc = [at |-> "none"]

\* no RangedVector of the caller's own
no_ranged_vector ==
    /\ rv_ranges = EmptyVec
    /\ rv_last = [op |-> "none"]

\* the locals of a function of segmented_scan.rs before its call
no_segmented_call ==
    /\ seg_data = EmptyVec
    /\ seg_workspace = EmptyVec
    /\ seg_step = 0
    /\ seg_lefts = EmptyVec
    /\ seg_ret = None

\* no call of a function of segmented_scan.rs
no_segmented_scan ==
    /\ seg_v = EmptyVec
    /\ seg_num_threads = 1
    /\ seg_alg = "sequential_scan"
    /\ seg_chunk = "chunk"
    /\ seg_pc = "idle"
    /\ no_segmented_call

\* no MassReceiver handed to the caller
no_mass_receiver ==
    /\ mr_expected_msg_count = 0
    /\ mr_channel = <<>>
    /\ mr_senders = FALSE
    /\ mr_results = EmptyVec
    /\ mr_i = 0
    /\ mr_pc = "idle"
    /\ mr_ret = None

\* Scanner::new().with_threads(n), then the tuning parameter of the scan
\* the caller is about to run: with_sequential_length for the tree scan,
\* with_cache_chunk_length for the blocked scans
Init ==
    /\ input \in VecsUpTo(MaxLen, Values)
    /\ num_threads \in 1..MaxThreads
    /\ alg \in Algs
    /\ func \in Funcs
    /\ alg # "blelloch_scan_generic" => func = "add"
    /\ sequential_length \in 0..MaxSeqLen
    /\ alg # "blelloch_scan" => sequential_length = 0
    /\ cache_chunk_length \in CacheLens
    /\ alg \notin BlockedScans => cache_chunk_length = CacheChunkLengthDefault
    /\ pc = "call"
    /\ no_call
    /\ no_chunk_ranges_call
    /\ no_split_vector
    /\ no_thread_pool
    /\ no_ranged_vector
    /\ no_segmented_scan
    /\ no_mass_receiver

\* a caller that runs no scan: a default Scanner, never called
no_scan ==
    /\ input = EmptyVec
    /\ num_threads = 1
    /\ alg = "blelloch_scan"
    /\ func = "add"
    /\ sequential_length = 0
    /\ cache_chunk_length = CacheChunkLengthDefault
    /\ pc = "idle"
    /\ no_call

\* a count in which a task's handle lives on until its result is gathered
strong_count_until_gathered == 1 + Cardinality(DOMAIN queue \cup DOMAIN chan)

\* Arc::strong_count of the shared buffer: the owner plus one handle per
\* task that has not finished (a task drops its chunk before it reports)
strong_count == 1 + Cardinality(DOMAIN queue)

\* ---------------------------------------------------------------------
\* How a scan ends
\* ---------------------------------------------------------------------
\* return Ok(v)
ReturnOk(v) ==
    /\ pc' = "done"
    /\ outcome' = "Ok"
    /\ result' = v
    /\ UNCHANGED ret

\* return Err(e), or the abort of the calling thread (e = "panic")
Fail(e) ==
    /\ pc' = "done"
    /\ outcome' = e
    /\ result' = EmptyVec
    /\ UNCHANGED ret

\* ---------------------------------------------------------------------
\* util/thread_pool.rs
\* ---------------------------------------------------------------------
\* a sendall that queues the message of the last thread like the others,
\* although no background thread serves it
sendall_all_remote(msgs, after) ==
    IF VecLen(msgs) > num_threads
    THEN Fail("panic") /\ expected' = VecLen(msgs) /\ UNCHANGED <<queue, chan, totals>>
    ELSE /\ queue' = msgs
         /\ chan' = EmptyVec
         /\ expected' = VecLen(msgs)
         /\ UNCHANGED totals
         /\ pc' = "gather"
         /\ ret' = after
         /\ UNCHANGED <<outcome, result>>

\* ThreadPool::sendall: message i goes to threads[i]; the last thread is
\* the calling thread itself, which runs its message inside sendall.  With
\* more messages than threads (msg_count > threads.len()) self.threads[i]
\* aborts the caller
sendall(msgs, after) ==
    IF VecLen(msgs) > num_threads
    THEN Fail("panic") /\ expected' = VecLen(msgs) /\ UNCHANGED <<queue, chan, totals>>
    ELSE /\ queue' = msgs
         /\ chan' = EmptyVec
         /\ expected' = VecLen(msgs)
         /\ UNCHANGED totals
         /\ pc' = IF VecLen(msgs) = num_threads THEN "sendall" ELSE "gather"
         /\ ret' = after
         /\ UNCHANGED <<outcome, result>>

\* the buffer and the result produced by the task function of message t
\* on worker index
task_effect(index, t) ==
    CASE t.kind = "up_sweep" ->
            [buf |-> up_sweep_task(vec, t.chunk, t.step, func), result |-> 0]
      [] t.kind = "down_sweep" ->
            [buf |-> down_sweep_task(vec, t.chunk, t.step, func), result |-> 0]
      [] t.kind = "do_step" ->
            [buf |-> do_step(vec, data, t.chunk, ranges, index, t.step), result |-> 0]
      [] t.kind = "post_local" ->
            post_local_task(vec, t.chunk)
      [] t.kind = "post_distribute" ->
            [buf |-> post_distribute_task(vec, t.chunk, t.chunk_start, carries),
             result |-> 0]
      [] t.kind = "pre_sum" ->
            [buf |-> vec, result |-> pre_sum_task(vec, ranges, index)]
      [] t.kind = "pre_scan" ->
            [buf |-> pre_scan_task(vec, t.chunk, t.carry), result |-> 0]

\* ThreadWork::call on worker index: run the function, drop the
\* argument, send (thread_id, result)
ThreadWork_call(index) ==
    LET eff == task_effect(index, queue[index])
    IN  /\ vec' = eff.buf
        /\ queue' = [j \in DOMAIN queue \ {index} |-> queue[j]]
        /\ chan' = [j \in DOMAIN chan \cup {index} |->
                       IF j = index THEN eff.result ELSE chan[j]]
        /\ UNCHANGED <<data, expected, totals>>

\* a background worker takes its message from its queue and runs it
RemoteThread_run(index) ==
    /\ pc \in {"sendall", "gather"}
    /\ index \in DOMAIN queue
    /\ index < num_threads - 1
    /\ ThreadWork_call(index)
    /\ UNCHANGED <<units, conf, call, loop, ctl>>

\* a dispatch that lets the background workers finish before it runs the
\* last message
Thread_send_local_last ==
    /\ pc = "sendall"
    /\ DOMAIN queue = {num_threads - 1}
    /\ ThreadWork_call(num_threads - 1)
    /\ pc' = "gather"
    /\ UNCHANGED <<units, conf, call, loop, ret, outcome, result>>

\* Thread::Local: the calling thread runs the last message inside sendall
Thread_send_local ==
    /\ pc = "sendall"
    /\ (num_threads - 1) \in DOMAIN queue
    /\ ThreadWork_call(num_threads - 1)
    /\ pc' = "gather"
    /\ UNCHANGED <<units, conf, call, loop, ret, outcome, result>>

\* a gather that returns with the first result instead of counting to
\* expected_msg_count
gather_first_result ==
    /\ pc = "gather"
    /\ (chan # EmptyVec \/ expected = 0)
    /\ totals' = chan
    /\ chan' = EmptyVec
    /\ pc' = ret
    /\ UNCHANGED <<units, conf, call, bufs, loop, queue, expected, ret, outcome, result>>

\* MassReceiver::gather: returns once expected_msg_count results arrived,
\* ordered by worker index
gather ==
    /\ pc = "gather"
    /\ DOMAIN chan = 0..(expected - 1)
    /\ totals' = chan
    /\ chan' = EmptyVec
    /\ pc' = ret
    /\ UNCHANGED <<units, conf, call, bufs, loop, queue, expected, ret, outcome, result>>

\* a message of a dispatch
Msg(kind, chunk, st, chunk_start, carry) ==
    [kind |-> kind, chunk |-> chunk, step |-> st, chunk_start |-> chunk_start,
     carry |-> carry]

\* ---------------------------------------------------------------------
\* Scanner::blelloch_scan and Scanner::blelloch_scan_generic
\* ---------------------------------------------------------------------
\* entry of a scan: the locals of the previous call are gone
enter(buffer, current, st, start) ==
    /\ vec' = buffer
    /\ data' = current
    /\ iter' = 0
    /\ step' = st
    /\ cache_chunk_start' = 0
    /\ ranges' = EmptyVec
    /\ carries' = EmptyVec
    /\ queue' = EmptyVec
    /\ chan' = EmptyVec
    /\ expected' = 0
    /\ totals' = EmptyVec
    /\ pc' = start
    /\ ret' = "call"
    /\ outcome' = "running"
    /\ result' = EmptyVec

blelloch_scan_call ==
    /\ pc = "call"
    /\ alg = "blelloch_scan"
    /\ enter(input, EmptyVec, 0, "up_sweep")
    /\ UNCHANGED <<units, conf, call>>

blelloch_scan_generic_call ==
    /\ pc = "call"
    /\ alg = "blelloch_scan_generic"
    /\ enter(generic_arg(func, input), EmptyVec, 0, "up_sweep")
    /\ UNCHANGED <<units, conf, call>>

\* the chunks of one sweep step, with the step, as messages
sweep_msgs(kind, chunks, st) ==
    [i \in DOMAIN chunks |-> Msg(kind, chunks[i], st, 0, 0)]

\* one iteration of the up-sweep loop, up to the return of sendall
blelloch_up_sweep_step ==
    /\ pc = "up_sweep"
    /\ iter < CeilLog2(VecLen(vec))
    /\ LET st == Pow2(iter)
           rs == pyramid_ranges_for(st, VecLen(vec), num_threads, sequential_length)
           chunks == SplitVector_chunk(rs, VecLen(vec), strong_count)
       IN  IF ~chunks.some
           THEN Fail("InvalidChunking") /\ UNCHANGED <<loop, pool>>
           ELSE /\ sendall(sweep_msgs("up_sweep", chunks.val, st), "up_sweep")
                /\ iter' = iter + 1
                /\ step' = st
                /\ ranges' = rs
                /\ UNCHANGED <<cache_chunk_start, carries>>
    /\ UNCHANGED <<units, conf, call, bufs>>

\* after the up-sweep: the last element becomes the identity
blelloch_set_last ==
    /\ pc = "up_sweep"
    /\ iter >= CeilLog2(VecLen(vec))
    /\ LET len == VecLen(vec)
       IN  IF len = 0
           THEN Fail("panic") /\ UNCHANGED vec
           ELSE IF ~SplitVector_extract(vec, strong_count).some
           THEN Fail("BrokenThreadLocking") /\ UNCHANGED vec
           ELSE /\ vec' = [vec EXCEPT ![len - 1] = default_value(func)]
                /\ pc' = "down_sweep"
                /\ UNCHANGED <<ret, outcome, result>>
    /\ UNCHANGED <<units, conf, call, data, loop, pool>>

\* one iteration of the down-sweep loop (the steps in reverse)
blelloch_down_sweep_step ==
    /\ pc = "down_sweep"
    /\ iter > 0
    /\ LET st == Pow2(iter - 1)
           rs == pyramid_ranges_for(st, VecLen(vec), num_threads, sequential_length)
           chunks == SplitVector_chunk(rs, VecLen(vec), strong_count)
       IN  IF ~chunks.some
           THEN Fail("InvalidChunking") /\ UNCHANGED <<loop, pool>>
           ELSE /\ sendall(sweep_msgs("down_sweep", chunks.val, st), "down_sweep")
                /\ iter' = iter - 1
                /\ step' = st
                /\ ranges' = rs
                /\ UNCHANGED <<cache_chunk_start, carries>>
    /\ UNCHANGED <<units, conf, call, bufs>>

\* result_vec.extract().ok_or(BrokenThreadLocking)
blelloch_extract ==
    /\ pc = "down_sweep"
    /\ iter = 0
    /\ LET v == SplitVector_extract(vec, strong_count)
       IN  IF v.some THEN ReturnOk(v.val) ELSE Fail("BrokenThreadLocking")
    /\ UNCHANGED <<units, conf, call, bufs, loop, pool>>

\* ---------------------------------------------------------------------
\* Scanner::hillis_steel_scan
\* ---------------------------------------------------------------------
hillis_steel_scan_call ==
    /\ pc = "call"
    /\ alg = "hillis_steel_scan"
    /\ enter(VecOf(VecLen(input), 0), input, 1, "doubling")
    /\ UNCHANGED <<units, conf, call>>

\* one iteration of the while loop, up to the return of sendall
hillis_steel_pass ==
    /\ pc = "doubling"
    /\ step < VecLen(data)
    /\ LET operation_count == VecLen(data) - step
           rs == chunk_ranges(operation_count, num_threads)
           split_ranges == [i \in DOMAIN rs |-> rs[i] + step]
           chunks == SplitVector_chunk(split_ranges, VecLen(vec), strong_count)
       IN  IF ~chunks.some
           THEN Fail("panic") /\ UNCHANGED <<loop, pool>>
           ELSE /\ sendall([i \in DOMAIN chunks.val |->
                               Msg("do_step", chunks.val[i], step, 0, 0)], "swap")
                /\ ranges' = rs
                /\ UNCHANGED <<iter, step, cache_chunk_start, carries>>
    /\ UNCHANGED <<units, conf, call, bufs>>

\* after gather: take the workspace, copy [0, step), exchange the buffers
hillis_steel_swap ==
    /\ pc = "swap"
    /\ LET extracted == SplitVector_extract(vec, strong_count)
           copied == [i \in DOMAIN vec |-> IF i < step THEN data[i] ELSE vec[i]]
           tmp == SplitVector_extract(data, strong_count)
       IN  IF ~extracted.some \/ ~tmp.some
           THEN Fail("panic") /\ UNCHANGED <<bufs, step>>
           ELSE /\ data' = copied
                /\ vec' = tmp.val
                /\ step' = step * 2
                /\ pc' = "doubling"
                /\ UNCHANGED <<ret, outcome, result>>
    /\ UNCHANGED <<units, conf, call, iter, cache_chunk_start, ranges, carries, pool>>

\* Arc::try_unwrap(data).map_err(BrokenThreadLocking)
hillis_steel_return ==
    /\ pc = "doubling"
    /\ step >= VecLen(data)
    /\ LET v == SplitVector_extract(data, strong_count)
       IN  IF v.some THEN ReturnOk(v.val) ELSE Fail("BrokenThreadLocking")
    /\ UNCHANGED <<units, conf, call, bufs, loop, pool>>

\* ---------------------------------------------------------------------
\* Scanner::divide_and_conquer_post_scatter_scan
\* ---------------------------------------------------------------------
\* length of the cache block that starts at cache_chunk_start
current_length == Min(cache_chunk_length, VecLen(vec) - cache_chunk_start)

shifted(offsets, by) == [i \in DOMAIN offsets |-> offsets[i] + by]

post_scatter_call ==
    /\ pc = "call"
    /\ alg = "divide_and_conquer_post_scatter_scan"
    /\ enter(input, EmptyVec, 0, "post_block")
    /\ UNCHANGED <<units, conf, call>>

\* head of a cache block up to the return of the first sendall
post_scatter_first_sweep ==
    /\ pc = "post_block"
    /\ cache_chunk_start < VecLen(vec)
    /\ LET rs == chunk_ranges(current_length, num_threads)
           chunks == SplitVector_chunk(shifted(rs, cache_chunk_start), VecLen(vec),
                                       strong_count)
       IN  IF ~chunks.some
           THEN Fail("panic") /\ UNCHANGED <<loop, pool>>
           ELSE /\ sendall([i \in DOMAIN chunks.val |->
                               Msg("post_local", chunks.val[i], 0, 0, 0)], "post_carries")
                /\ ranges' = rs
                /\ UNCHANGED <<iter, step, cache_chunk_start, carries>>
    /\ UNCHANGED <<units, conf, call, bufs>>

\* from the first gather to the return of the second sendall
post_scatter_second_sweep ==
    /\ pc = "post_carries"
    /\ LET cs == RangedVector_new(ranges, carries_of(totals))
           first_end == RangedVector_get_range(cs, 0).val.end
           rs == shifted(chunk_ranges(current_length - first_end, num_threads),
                         first_end)
           chunks == SplitVector_chunk(shifted(rs, cache_chunk_start), VecLen(vec),
                                       strong_count)
       IN  IF ~chunks.some
           THEN Fail("panic") /\ UNCHANGED <<loop, pool>>
           ELSE /\ sendall([i \in DOMAIN chunks.val |->
                               Msg("post_distribute", chunks.val[i], 0, rs[i], 0)],
                           "post_extract")
                /\ carries' = cs
                /\ UNCHANGED <<iter, step, cache_chunk_start, ranges>>
    /\ UNCHANGED <<units, conf, call, bufs>>

\* vec = data.extract().ok_or(BrokenThreadLocking)?, then the next block
post_scatter_end_block ==
    /\ pc = "post_extract"
    /\ IF ~SplitVector_extract(vec, strong_count).some
       THEN Fail("BrokenThreadLocking") /\ UNCHANGED cache_chunk_start
       ELSE /\ cache_chunk_start' = cache_chunk_start + cache_chunk_length
            /\ pc' = "post_block"
            /\ UNCHANGED <<ret, outcome, result>>
    /\ UNCHANGED <<units, conf, call, bufs, iter, step, ranges, carries, pool>>

post_scatter_return ==
    /\ pc = "post_block"
    /\ cache_chunk_start >= VecLen(vec)
    /\ ReturnOk(vec)
    /\ UNCHANGED <<units, conf, call, bufs, loop, pool>>

\* ---------------------------------------------------------------------
\* Scanner::divide_and_conquer_pre_scatter_scan
\* ---------------------------------------------------------------------
\* ThreadPool::broadcast: a clone of the message to every thread
broadcast(msg, after) ==
    /\ queue' = [i \in 0..(num_threads - 1) |-> msg]
    /\ chan' = EmptyVec
    /\ expected' = num_threads
    /\ UNCHANGED totals
    /\ pc' = "sendall"
    /\ ret' = after
    /\ UNCHANGED <<outcome, result>>

pre_scatter_call ==
    /\ pc = "call"
    /\ alg = "divide_and_conquer_pre_scatter_scan"
    /\ enter(input, EmptyVec, 0, "pre_block")
    /\ UNCHANGED <<units, conf, call>>

\* head of a cache block up to the return of broadcast
pre_scatter_totals ==
    /\ pc = "pre_block"
    /\ cache_chunk_start < VecLen(vec)
    /\ broadcast(Msg("pre_sum", [start |-> 0, end |-> 0], 0, 0, 0), "pre_carries")
    /\ ranges' = shifted(chunk_ranges(current_length, num_threads), cache_chunk_start)
    /\ UNCHANGED <<units, conf, call, bufs, iter, step, cache_chunk_start, carries>>

\* from the first gather to the return of sendall
pre_scatter_sweep ==
    /\ pc = "pre_carries"
    /\ LET unwrapped == SplitVector_extract(vec, strong_count)
           cs == carries_of(totals)
           chunks == SplitVector_chunk(ranges, VecLen(vec), strong_count)
       IN  IF ~unwrapped.some \/ ~chunks.some
           THEN Fail("panic") /\ UNCHANGED pool
           ELSE sendall([i \in DOMAIN chunks.val |->
                            Msg("pre_scan", chunks.val[i], 0, 0, cs[i])], "pre_extract")
    /\ UNCHANGED <<units, conf, call, bufs, loop>>

pre_scatter_end_block ==
    /\ pc = "pre_extract"
    /\ IF ~SplitVector_extract(vec, strong_count).some
       THEN Fail("BrokenThreadLocking") /\ UNCHANGED cache_chunk_start
       ELSE /\ cache_chunk_start' = cache_chunk_start + cache_chunk_length
            /\ pc' = "pre_block"
            /\ UNCHANGED <<ret, outcome, result>>
    /\ UNCHANGED <<units, conf, call, bufs, iter, step, ranges, carries, pool>>

pre_scatter_return ==
    /\ pc = "pre_block"
    /\ cache_chunk_start >= VecLen(vec)
    /\ ReturnOk(vec)
    /\ UNCHANGED <<units, conf, call, bufs, loop, pool>>

\* ---------------------------------------------------------------------
\* The caller: a second scan of the same data on the same Scanner
\* ---------------------------------------------------------------------
Returned == [alg |-> alg, sequential_length |-> sequential_length,
             outcome |-> outcome, result |-> result]

\* the same data through the other blocked scan
rescan_pre_scatter ==
    /\ pc = "done"
    /\ prev = None
    /\ alg = "divide_and_conquer_post_scatter_scan"
    /\ prev' = Some(Returned)
    /\ alg' = "divide_and_conquer_pre_scatter_scan"
    /\ enter(input, EmptyVec, 0, "pre_block")
    /\ UNCHANGED <<units, conf, func>>

\* scanner.set_sequential_length(0); scanner.blelloch_scan(vec.clone())
rescan_default_sequential_length ==
    /\ pc = "done"
    /\ prev = None
    /\ alg = "blelloch_scan"
    /\ sequential_length > 0
    /\ sequential_length' = 0
    /\ prev' = Some(Returned)
    /\ enter(input, EmptyVec, 0, "up_sweep")
    /\ UNCHANGED <<units, input, num_threads, cache_chunk_length, alg, func>>

Next ==
    \/ blelloch_scan_call
    \/ blelloch_scan_generic_call
    \/ blelloch_up_sweep_step
    \/ blelloch_set_last
    \/ blelloch_down_sweep_step
    \/ blelloch_extract
    \/ hillis_steel_scan_call
    \/ hillis_steel_pass
    \/ hillis_steel_swap
    \/ hillis_steel_return
    \/ post_scatter_call
    \/ post_scatter_first_sweep
    \/ post_scatter_second_sweep
    \/ post_scatter_end_block
    \/ post_scatter_return
    \/ pre_scatter_call
    \/ pre_scatter_totals
    \/ pre_scatter_sweep
    \/ pre_scatter_end_block
    \/ pre_scatter_return
    \/ rescan_pre_scatter
    \/ rescan_default_sequential_length
    \/ \E index \in 0..(MaxThreads - 1) : RemoteThread_run(index)
    \/ Thread_send_local
    \/ gather

Spec == Init /\ [][Next]_vars

\* the steps of the calling thread inside a scan
caller_step ==
    \/ blelloch_scan_call
    \/ blelloch_scan_generic_call
    \/ blelloch_up_sweep_step
    \/ blelloch_set_last
    \/ blelloch_down_sweep_step
    \/ blelloch_extract
    \/ hillis_steel_scan_call
    \/ hillis_steel_pass
    \/ hillis_steel_swap
    \/ hillis_steel_return
    \/ post_scatter_call
    \/ post_scatter_first_sweep
    \/ post_scatter_second_sweep
    \/ post_scatter_end_block
    \/ post_scatter_return
    \/ pre_scatter_call
    \/ pre_scatter_totals
    \/ pre_scatter_sweep
    \/ pre_scatter_end_block
    \/ pre_scatter_return
    \/ Thread_send_local
    \/ gather

\* a step of any thread of a scan: the calling thread, or a background
\* thread with a message in its channel
thread_step ==
    \/ caller_step
    \/ \E index \in 0..(MaxThreads - 1) : RemoteThread_run(index)

\* the operating system lets some thread run as long as one can run (the
\* least that fair scheduling of the threads gives)
Fairness == WF_vars(thread_step)

\* the scans of the shorter inputs, under fair scheduling
LiveInit == Init /\ VecLen(input) <= MaxLiveLen

LiveSpec == LiveInit /\ [][Next]_vars /\ Fairness

\* ---------------------------------------------------------------------
\* Tasks that fail.  The function of a task may panic (the user's operator
\* of blelloch_scan_generic, an overflowing addition in a debug build): on
\* a background worker the thread unwinds, the ThreadWork is dropped with
\* its clone of the Sender, nothing is sent and the thread ends.  The
\* Scanner is used for this one scan.
\* ---------------------------------------------------------------------
\* the task of background worker index panics (thread_pool.rs:39 before
\* the send); what it wrote of its chunk is lost with the buffer
RemoteThread_panics(index) ==
    /\ pc \in {"sendall", "gather"}
    /\ index \in DOMAIN queue
    /\ index < num_threads - 1
    /\ queue' = [j \in DOMAIN queue \ {index} |-> queue[j]]
    /\ UNCHANGED <<bufs, chan, expected, totals>>
    /\ UNCHANGED <<units, conf, call, loop, ctl>>

\* a gather that returns the results it has when the senders are gone
gather_partial_results ==
    /\ pc = "gather"
    /\ queue = EmptyVec
    /\ DOMAIN chan # 0..(expected - 1)
    /\ totals' = chan
    /\ chan' = EmptyVec
    /\ pc' = ret
    /\ UNCHANGED <<units, conf, call, bufs, loop, queue, expected, ret, outcome, result>>

\* MassReceiver::gather when recv() fails: every Sender of the dispatch has
\* been dropped (each task has sent or died, sendall has returned) and the
\* channel holds fewer than expected_msg_count results; the scan maps the
\* RecvError to FailedThreadInGather and returns
gather_RecvError ==
    /\ pc = "gather"
    /\ queue = EmptyVec
    /\ DOMAIN chan # 0..(expected - 1)
    /\ Fail("FailedThreadInGather")
    /\ UNCHANGED <<units, conf, call, bufs, loop, pool>>

FaultNext ==
    \/ thread_step
    \/ \E index \in 0..(MaxThreads - 2) : RemoteThread_panics(index)
    \/ gather_RecvError

\* fair scheduling of the threads; a task is never bound to fail
FaultFairness == WF_vars(thread_step \/ gather_RecvError)

FaultSpec == LiveInit /\ [][FaultNext]_vars /\ FaultFairness

\* ---------------------------------------------------------------------
\* Scanner::parallel_quicksum_simd (prefix_scans/mod.rs): a caller that
\* sums its data on the Scanner's pool instead of scanning it
\* ---------------------------------------------------------------------
\* Scanner::new().with_threads(n), about to call parallel_quicksum_simd
InitQuicksum ==
    /\ input \in VecsUpTo(MaxLen, Values)
    /\ num_threads \in 1..MaxThreads
    /\ alg = "parallel_quicksum_simd"
    /\ func = "add"
    /\ sequential_length = 0
    /\ cache_chunk_length = CacheChunkLengthDefault
    /\ pc = "call"
    /\ no_call
    /\ no_chunk_ranges_call
    /\ no_split_vector
    /\ no_thread_pool
    /\ no_ranged_vector
    /\ no_segmented_scan
    /\ no_mass_receiver

parallel_quicksum_simd_call ==
    /\ pc = "call"
    /\ alg = "parallel_quicksum_simd"
    /\ enter(input, EmptyVec, 0, "quicksum")
    /\ UNCHANGED <<units, conf, call>>

\* chunk_ranges(data.len(), num_threads), up to the return of broadcast
parallel_quicksum_simd_broadcast ==
    /\ pc = "quicksum"
    /\ broadcast(Msg("pre_sum", [start |-> 0, end |-> 0], 0, 0, 0), "quicksum_sum")
    /\ ranges' = chunk_ranges(VecLen(vec), num_threads)
    /\ UNCHANGED <<units, conf, call, bufs, iter, step, cache_chunk_start, carries>>

\* gather().unwrap().into_iter().sum(): the u64 goes back in `result`
parallel_quicksum_simd_return ==
    /\ pc = "quicksum_sum"
    /\ ReturnOk(slice_sum(totals, 0, VecLen(totals)))
    /\ UNCHANGED <<units, conf, call, bufs, loop, pool>>

NextQuicksum ==
    \/ parallel_quicksum_simd_call
    \/ parallel_quicksum_simd_broadcast
    \/ \E index \in 0..(MaxThreads - 1) : RemoteThread_run(index)
    \/ Thread_send_local
    \/ gather
    \/ parallel_quicksum_simd_return

SpecQuicksum == InitQuicksum /\ [][NextQuicksum]_vars

\* ---------------------------------------------------------------------
\* chunk_ranges called on its own (helper_functions.rs)
\* ---------------------------------------------------------------------
InitChunkRanges ==
    /\ cr_len \in 0..MaxLen
    /\ cr_num_chunks \in 1..MaxChunks
    /\ cr_offsets = None
    /\ no_scan
    /\ no_split_vector
    /\ no_thread_pool
    /\ no_ranged_vector
    /\ no_segmented_scan
    /\ no_mass_receiver

chunk_ranges_call ==
    /\ cr_offsets = None
    /\ cr_offsets' = Some(chunk_ranges(cr_len, cr_num_chunks))
    /\ UNCHANGED <<cr_len, cr_num_chunks, sv_vars, tp_vars, scanner, rv_vars, seg_vars, mr_vars>>

NextChunkRanges == chunk_ranges_call

SpecChunkRanges == InitChunkRanges /\ [][NextChunkRanges]_vars

\* ---------------------------------------------------------------------
\* One SplitVector used on its own (split_vector.rs)
\* ---------------------------------------------------------------------
\* the offsets a caller may pass: any list, ordered or not, in range or not
OffsetLists == VecsUpTo(MaxOffsets, 0..(MaxSvLen + 1))

\* a Vec (0-based) as a sequence
AsSeq(v) == [i \in 1..VecLen(v) |-> v[i - 1]]

\* a count of owners in which the first chunk of a call holds no clone
sv_strong_count_but_first == IF Len(sv_chunks) > 1 THEN Len(sv_chunks) ELSE 1

\* SplitVector::ref_count: Arc::strong_count of the buffer
sv_strong_count == sv_ref_count

\* what an operation leaves in sv_last until the caller goes on: itself,
\* its argument and return, and the buffer and live chunks it found
sv_done(op, arg, r) ==
    [op |-> op, arg |-> arg, ret |-> r, buffer |-> sv_buffer, chunks |-> sv_chunks]

\* SplitVector::with_size(n)
InitSplitVector ==
    /\ sv_buffer \in {VecOf(n, 0) : n \in 0..MaxSvLen}
    /\ sv_chunks = <<>>
    /\ sv_last = [op |-> "none"]
    /\ sv_ref_count = 1
    /\ no_scan
    /\ no_chunk_ranges_call
    /\ no_thread_pool
    /\ no_ranged_vector
    /\ no_segmented_scan
    /\ no_mass_receiver

\* sv.chunk(&offsets); the caller keeps the chunks it got.  A chunk built
\* before a later pair of offsets is rejected is dropped with the Vec
sv_chunk(offsets) ==
    LET r == SplitVector_chunk(offsets, VecLen(sv_buffer), sv_strong_count)
    IN  /\ sv_last.op = "none"
        /\ sv_chunks' = IF r.some THEN sv_chunks \o AsSeq(r.val) ELSE sv_chunks
        /\ sv_last' = sv_done("chunk", offsets, r)
        /\ sv_ref_count' = sv_ref_count
               + SplitVector_chunk_pushed(offsets, VecLen(sv_buffer), sv_strong_count)
               - SplitVector_chunk_dropped(offsets, VecLen(sv_buffer), sv_strong_count)
        /\ UNCHANGED <<sv_buffer, cr_vars, tp_vars, scanner, rv_vars, seg_vars, mr_vars>>

\* sv.chunk_all(offsets): offsets.push(len), then chunk
sv_chunk_all(offsets) ==
    LET n == VecLen(offsets)
        pushed == [i \in 0..n |-> IF i < n THEN offsets[i] ELSE VecLen(sv_buffer)]
        r == SplitVector_chunk(pushed, VecLen(sv_buffer), sv_strong_count)
    IN  /\ sv_last.op = "none"
        /\ sv_chunks' = IF r.some THEN sv_chunks \o AsSeq(r.val) ELSE sv_chunks
        /\ sv_last' = sv_done("chunk_all", offsets, r)
        /\ sv_ref_count' = sv_ref_count
               + SplitVector_chunk_pushed(pushed, VecLen(sv_buffer), sv_strong_count)
               - SplitVector_chunk_dropped(pushed, VecLen(sv_buffer), sv_strong_count)
        /\ UNCHANGED <<sv_buffer, cr_vars, tp_vars, scanner, rv_vars, seg_vars, mr_vars>>

\* the caller drops its c-th live chunk, and with it main_memory
sv_drop_chunk(c) ==
    /\ sv_last.op = "none"
    /\ c \in 1..Len(sv_chunks)
    /\ sv_chunks' = [i \in 1..(Len(sv_chunks) - 1) |->
                         IF i < c THEN sv_chunks[i] ELSE sv_chunks[i + 1]]
    /\ sv_last' = sv_done("drop", c, None)
    /\ sv_ref_count' = sv_ref_count - 1
    /\ UNCHANGED <<sv_buffer, cr_vars, tp_vars, scanner, rv_vars, seg_vars, mr_vars>>

\* a slice that starts at the start of the buffer whatever the offset
chunk_position_from_vector_start(chunk, i) == i

\* the buffer position of chunk.chunk[i]: the slice starts at
\* vector_start.add(offsets[i])
chunk_position(chunk, i) == chunk.start + i

\* chunk[i] = 1 through the c-th live chunk (IndexMut)
sv_chunk_write(c, i) ==
    /\ sv_last.op = "none"
    /\ c \in 1..Len(sv_chunks)
    /\ i \in 0..(sv_chunks[c].end - sv_chunks[c].start - 1)
    /\ chunk_position(sv_chunks[c], i) \in DOMAIN sv_buffer
    /\ sv_buffer' = [sv_buffer EXCEPT ![chunk_position(sv_chunks[c], i)] = 1]
    /\ sv_last' = sv_done("write", c, None)
    /\ UNCHANGED <<sv_ref_count, sv_chunks, cr_vars, tp_vars, scanner, rv_vars, seg_vars, mr_vars>>

\* sv.view_mut().map(|v| v[i] = 1): None unless sole owner
sv_view_mut(i) ==
    LET r == SplitVector_extract(sv_buffer, sv_strong_count)
    IN  /\ sv_last.op = "none"
        /\ i \in DOMAIN sv_buffer
        /\ sv_buffer' = IF r.some THEN [sv_buffer EXCEPT ![i] = 1] ELSE sv_buffer
        /\ sv_last' = sv_done("view_mut", i, r)
        /\ UNCHANGED <<sv_ref_count, sv_chunks, cr_vars, tp_vars, scanner, rv_vars, seg_vars, mr_vars>>

\* sv.extract(): mem::replace(Arc::get_mut(..)?, Vec::new())
sv_extract ==
    LET r == SplitVector_extract(sv_buffer, sv_strong_count)
    IN  /\ sv_last.op = "none"
        /\ sv_buffer' = IF r.some THEN EmptyVec ELSE sv_buffer
        /\ sv_last' = sv_done("extract", 0, r)
        /\ UNCHANGED <<sv_ref_count, sv_chunks, cr_vars, tp_vars, scanner, rv_vars, seg_vars, mr_vars>>

\* the caller has looked at what the operation returned and goes on
sv_continue ==
    /\ sv_last.op # "none"
    /\ sv_last' = [op |-> "none"]
    /\ UNCHANGED <<sv_ref_count, sv_buffer, sv_chunks, cr_vars, tp_vars, scanner, rv_vars, seg_vars, mr_vars>>

\* the offsets of the caller's next call, once it is ready for one
next_offsets == IF sv_last.op = "none" THEN OffsetLists ELSE {}

NextSplitVector ==
    \/ \E offsets \in next_offsets : sv_chunk(offsets)
    \/ \E offsets \in next_offsets : sv_chunk_all(offsets)
    \/ \E c \in 1..MaxOffsets : sv_drop_chunk(c)
    \/ \E c \in 1..MaxOffsets, i \in 0..(MaxSvLen + 1) : sv_chunk_write(c, i)
    \/ \E i \in 0..(MaxSvLen + 1) : sv_view_mut(i)
    \/ sv_extract
    \/ sv_continue

SpecSplitVector == InitSplitVector /\ [][NextSplitVector]_vars

\* ---------------------------------------------------------------------
\* One ThreadPool used on its own (util/thread_pool.rs): the caller makes a
\* dispatch, may make a second one before it gathers the first, and gathers
\* the two handles in either order
\* ---------------------------------------------------------------------
\* the ThreadFunctions of the caller: the closure of thread_pool_basic_test,
\* and one that returns its thread id and its argument as they are
ThreadFunctions == {"square_by_index", "id_and_argument"}

\* (self.function)(self.thread_id, *self.argument); thread_id = <<index, total>>
ThreadFunction_call(function, thread_id, argument) ==
    IF function = "square_by_index"
    THEN argument[thread_id[1]] * argument[thread_id[1]]
    ELSE [thread_id |-> thread_id, argument |-> argument]

\* the Vec `numbers` of thread_pool_basic_test, for a pool of n threads
numbers(n) == [i \in 0..(n - 1) |-> i + 1]

\* the position in `results` an arriving message fills when results are
\* kept in the order of arrival
gather_slot_by_arrival(index, received) == received

\* MassReceiver::gather: results[index] for the message of thread index,
\* the received-th to arrive
gather_slot(index, received) == index

RECURSIVE gather_loop(_, _, _, _)
\* the loop of MassReceiver::gather over the first expected_msg_count messages of the
\* channel; results is a Vec of Options
gather_loop(channel, expected_msg_count, received, results) ==
    IF received = expected_msg_count
    THEN [ok |-> TRUE, results |-> [i \in DOMAIN results |-> results[i].val]]
    ELSE LET m == channel[received + 1]
             slot == gather_slot(m.thread_id[1], received)
         IN  IF slot \notin DOMAIN results THEN [ok |-> FALSE, results |-> "panic"]
             ELSE IF results[slot].some THEN [ok |-> FALSE, results |-> "RecvError"]
             ELSE gather_loop(channel, expected_msg_count, received + 1,
                              [results EXCEPT ![slot] = Some(m.msg)])

\* a pool whose results all go to the channel of its latest dispatch
result_channel_of_latest(work, latest) == latest

\* the channel a ThreadWork sends its result to: the clone of the Sender of
\* its own dispatch that it carries
result_channel(work, latest) == work.dispatch

\* a broadcast that reaches the background threads only
broadcast_msgs_remote_only(msg, n) == [i \in 0..(n - 2) |-> msg]

\* ThreadPool::broadcast: msg.clone() for each of the n threads
broadcast_msgs(msg, n) == [i \in 0..(n - 1) |-> msg]

\* ThreadPool::new(n): n - 1 RemoteThreads with empty channels, one Local
InitThreadPool ==
    /\ tp_num_threads \in 1..MaxPool
    /\ tp_queues = [i \in 0..(tp_num_threads - 2) |-> <<>>]
    /\ tp_handles = <<>>
    /\ tp_pc = [at |-> "idle"]
    /\ no_scan
    /\ no_chunk_ranges_call
    /\ no_split_vector
    /\ no_ranged_vector
    /\ no_segmented_scan
    /\ no_mass_receiver

\* ThreadWork::new for message i of the dispatch
ThreadWork_new(dispatch, function, msgs, i) ==
    [dispatch |-> dispatch, function |-> function, argument |-> msgs[i],
     thread_id |-> <<i, tp_num_threads>>]

\* a loop that runs the Local thread's message before it hands any message
\* to a RemoteThread
dispatch_msgs_local_first(kind, arg, function, msgs, expected_msg_count) ==
    LET d == Len(tp_handles) + 1
        local == (tp_num_threads - 1) \in DOMAIN msgs
    IN  /\ tp_handles' = Append(tp_handles,
               [kind |-> kind, arg |-> arg, function |-> function,
                sent |-> [i \in DOMAIN msgs |-> ThreadWork_new(d, function, msgs, i)],
                expected |-> expected_msg_count,
                channel |-> <<>>,
                ret |-> None])
        /\ tp_queues' = [i \in DOMAIN tp_queues |->
               IF i \in DOMAIN msgs /\ ~local
               THEN Append(tp_queues[i], ThreadWork_new(d, function, msgs, i))
               ELSE tp_queues[i]]
        /\ tp_pc' = IF local
                    THEN [at |-> "send_local", dispatch |-> d]
                    ELSE [at |-> "idle"]

\* the loop of sendall / broadcast: message i goes to threads[i]; a
\* RemoteThread gets it into its channel, the Local thread runs it in place
\* (the step Thread_Local_send).  The handle keeps what was sent.
dispatch_msgs(kind, arg, function, msgs, expected_msg_count) ==
    LET d == Len(tp_handles) + 1
    IN  /\ tp_handles' = Append(tp_handles,
               [kind |-> kind, arg |-> arg, function |-> function,
                sent |-> [i \in DOMAIN msgs |-> ThreadWork_new(d, function, msgs, i)],
                expected |-> expected_msg_count,
                channel |-> <<>>,
                ret |-> None])
        /\ tp_queues' = [i \in DOMAIN tp_queues |->
               IF i \in DOMAIN msgs
               THEN Append(tp_queues[i], ThreadWork_new(d, function, msgs, i))
               ELSE tp_queues[i]]
        /\ tp_pc' = IF (tp_num_threads - 1) \in DOMAIN msgs
                    THEN [at |-> "send_local", dispatch |-> d]
                    ELSE [at |-> "idle"]

\* pool.sendall(msgs, function), msgs.len() <= threads.len()
ThreadPool_sendall(msgs, function) ==
    /\ tp_pc.at = "idle"
    /\ Len(tp_handles) < 2
    /\ VecLen(msgs) <= tp_num_threads
    /\ dispatch_msgs("sendall", msgs, function, msgs, VecLen(msgs))
    /\ UNCHANGED <<tp_num_threads, cr_vars, sv_vars, scanner, rv_vars, seg_vars, mr_vars>>

\* pool.broadcast(msg, function)
ThreadPool_broadcast(msg, function) ==
    /\ tp_pc.at = "idle"
    /\ Len(tp_handles) < 2
    /\ dispatch_msgs("broadcast", msg, function,
                     broadcast_msgs(msg, tp_num_threads), tp_num_threads)
    /\ UNCHANGED <<tp_num_threads, cr_vars, sv_vars, scanner, rv_vars, seg_vars, mr_vars>>

\* the result of work, sent by worker into the channel of its dispatch
send_result(work, worker) ==
    LET d == result_channel(work, Len(tp_handles))
        m == [thread_id |-> work.thread_id,
              msg |-> ThreadFunction_call(work.function, work.thread_id, work.argument),
              of |-> work.dispatch,
              by |-> worker]
    IN  tp_handles' = [tp_handles EXCEPT ![d].channel = Append(@, m)]

\* Thread::Local in Thread::send: the calling thread runs the last message
Thread_Local_send ==
    /\ tp_pc.at = "send_local"
    /\ send_result(tp_handles[tp_pc.dispatch].sent[tp_num_threads - 1],
                   tp_num_threads - 1)
    /\ tp_pc' = [at |-> "idle"]
    /\ UNCHANGED <<tp_num_threads, tp_queues, cr_vars, sv_vars, scanner, rv_vars, seg_vars, mr_vars>>

\* the loop of RemoteThread::new: for msg in rx { msg.call() }
RemoteThread_recv(worker) ==
    /\ worker \in DOMAIN tp_queues
    /\ tp_queues[worker] # <<>>
    /\ send_result(Head(tp_queues[worker]), worker)
    /\ tp_queues' = [tp_queues EXCEPT ![worker] = Tail(@)]
    /\ UNCHANGED <<tp_num_threads, tp_pc, cr_vars, sv_vars, scanner, rv_vars, seg_vars, mr_vars>>

\* handle.gather(): blocks until expected_msg_count messages have arrived
MassReceiver_gather(d) ==
    /\ tp_pc.at = "idle"
    /\ d \in 1..Len(tp_handles)
    /\ ~tp_handles[d].ret.some
    /\ Len(tp_handles[d].channel) >= tp_handles[d].expected
    /\ tp_handles' = [tp_handles EXCEPT ![d].ret =
           Some(gather_loop(tp_handles[d].channel, tp_handles[d].expected, 0,
                            VecOf(tp_handles[d].expected, None)))]
    /\ UNCHANGED <<tp_num_threads, tp_queues, tp_pc, cr_vars, sv_vars, scanner, rv_vars, seg_vars, mr_vars>>

NextThreadPool ==
    \/ \E m \in 0..MaxPool : ThreadPool_sendall(numbers(m), "id_and_argument")
    \/ ThreadPool_broadcast(numbers(tp_num_threads), "square_by_index")
    \/ \E msg \in Values : ThreadPool_broadcast(msg, "id_and_argument")
    \/ Thread_Local_send
    \/ \E worker \in 0..(MaxPool - 2) : RemoteThread_recv(worker)
    \/ \E d \in 1..2 : MassReceiver_gather(d)

SpecThreadPool == InitThreadPool /\ [][NextThreadPool]_vars

\* ---------------------------------------------------------------------
\* One RangedVector used on its own (util/ranged_vector.rs)
\* ---------------------------------------------------------------------
\* the points a caller may pass, ordered or not, and as many values as
\* there are pairs of adjacent points
PointLists == VecsUpTo(MaxRanges + 1, 0..MaxTotal) \ {EmptyVec}

\* RangedVector::new(points, values)
InitRangedVector ==
    /\ \E points \in PointLists :
           \E values \in VecsUpTo(MaxRanges, Values) :
               /\ VecLen(values) = VecLen(points) - 1
               /\ rv_ranges = RangedVector_new(points, values)
    /\ rv_last = [op |-> "none"]
    /\ no_scan
    /\ no_chunk_ranges_call
    /\ no_split_vector
    /\ no_thread_pool
    /\ no_segmented_scan
    /\ no_mass_receiver

\* rv.get(point)
rv_get(point) ==
    /\ rv_last.op = "none"
    /\ rv_last' = [op |-> "get", arg |-> point,
                   ret |-> RangedVector_get(rv_ranges, point)]
    /\ UNCHANGED <<rv_ranges, cr_vars, sv_vars, tp_vars, scanner, seg_vars, mr_vars>>

\* rv.get_range(index)
rv_get_range(index) ==
    /\ rv_last.op = "none"
    /\ rv_last' = [op |-> "get_range", arg |-> index,
                   ret |-> RangedVector_get_range(rv_ranges, index)]
    /\ UNCHANGED <<rv_ranges, cr_vars, sv_vars, tp_vars, scanner, seg_vars, mr_vars>>

\* rv.next_range(range) for the index-th range of rv
rv_next_range(index) ==
    /\ rv_last.op = "none"
    /\ index \in DOMAIN rv_ranges
    /\ rv_last' = [op |-> "next_range", arg |-> index,
                   ret |-> RangedVector_next_range(rv_ranges, rv_ranges[index])]
    /\ UNCHANGED <<rv_ranges, cr_vars, sv_vars, tp_vars, scanner, seg_vars, mr_vars>>

\* the caller has looked at what the call returned and goes on
rv_continue ==
    /\ rv_last.op # "none"
    /\ rv_last' = [op |-> "none"]
    /\ UNCHANGED <<rv_ranges, cr_vars, sv_vars, tp_vars, scanner, seg_vars, mr_vars>>

NextRangedVector ==
    \/ \E point \in 0..(MaxTotal + 1) : rv_get(point)
    \/ \E index \in 0..MaxRanges : rv_get_range(index)
    \/ \E index \in 0..(MaxRanges - 1) : rv_next_range(index)
    \/ rv_continue

SpecRangedVector == InitRangedVector /\ [][NextRangedVector]_vars

\* ---------------------------------------------------------------------
\* The segmented scans (segmented_scan.rs): a list of sequences is kept as
\* a HeadFlagVec, the flat data with a flag at the start of every sequence
\* ---------------------------------------------------------------------
\* the sequences a caller may pass
SegmentLists == VecsUpTo(MaxSegments, VecsUpTo(MaxSegmentLen, Values))

RECURSIVE flat_len(_, _)
\* the length of the first k sequences of v together
flat_len(v, k) == IF k = 0 THEN 0 ELSE flat_len(v, k - 1) + VecLen(v[k - 1])

\* v.iter().flatten().copied().collect()
flatten(v) ==
    [p \in 0..(flat_len(v, VecLen(v)) - 1) |->
        LET k == CHOOSE j \in DOMAIN v : flat_len(v, j) <= p /\ p < flat_len(v, j + 1)
        IN  v[k][p - flat_len(v, k)]]

\* HeadFlagVec::from_vec: head_flags[flat_i] = true at the start of every
\* sequence; the index is out of bounds for an empty sequence at the end
HeadFlagVec_from_vec(v) ==
    LET flat == flatten(v)
        starts == {flat_len(v, k) : k \in DOMAIN v}
    IN  IF \E p \in starts : p >= VecLen(flat)
        THEN [panic |-> TRUE]
        ELSE [panic |-> FALSE, data |-> flat,
              head_flags |-> [p \in DOMAIN flat |-> p \in starts]]

\* HeadFlagVec::to_vec: a new sequence at every flag
HeadFlagVec_to_vec(flat, head_flags) ==
    IF VecLen(head_flags) > 0 /\ ~head_flags[0] THEN None
    ELSE LET heads == {p \in DOMAIN head_flags : head_flags[p]}
             before(p) == Cardinality({q \in heads : q < p})
             head(k) == CHOOSE p \in heads : before(p) = k
             end(k) == IF k + 1 < Cardinality(heads) THEN head(k + 1) ELSE VecLen(flat)
         IN  Some([k \in 0..(Cardinality(heads) - 1) |->
                      [i \in 0..(end(k) - head(k) - 1) |-> flat[head(k) + i]]])

RECURSIVE segmented_sequential_loop(_, _, _, _)
\* the loop of sequential_scan: scan = 0 at every head flag
segmented_sequential_loop(flat, head_flags, i, scan) ==
    IF i >= VecLen(flat) THEN flat
    ELSE LET acc == (IF head_flags[i] THEN 0 ELSE scan) + flat[i]
         IN  segmented_sequential_loop([flat EXCEPT ![i] = acc], head_flags, i + 1, acc)

\* what a function of segmented_scan.rs returns: an Option, or the abort
\* of the calling thread
Aborted == [some |-> FALSE, panic |-> TRUE]

\* segmented_scan::sequential_scan
segmented_sequential_scan(v) ==
    LET vec_ == HeadFlagVec_from_vec(v)
    IN  IF vec_.panic THEN Aborted
        ELSE HeadFlagVec_to_vec(
                 segmented_sequential_loop(vec_.data, vec_.head_flags, 0, 0),
                 vec_.head_flags)

\* segmented_scan::chunk_ranges: the start of each of the num_chunks
\* chunks, without the end of the last one
segmented_chunk_ranges(len, num_chunks) ==
    LET chunk_size == len \div num_chunks
        stragglers == len % num_chunks
    IN  [i \in 0..(num_chunks - 1) |->
            IF i < stragglers THEN i * (chunk_size + 1)
            ELSE i * chunk_size + stragglers]

\* workspace.chunk(offsets) with a Vec for argument.  SplitVector::chunk
\* takes a slice and makes a chunk for every pair of offsets;
\* SplitVector::chunk_all takes a Vec and pushes the length first.
segmented_chunk(method, offsets, len) ==
    IF method = "chunk_all"
    THEN SplitVector_chunk([i \in 0..VecLen(offsets) |->
                               IF i < VecLen(offsets) THEN offsets[i] ELSE len],
                           len, 1)
    ELSE SplitVector_chunk(offsets, len, 1)

RECURSIVE segmented_do_steps(_, _, _, _, _, _)
\* the tasks of one pass, do_step on chunk index for every index (they
\* write disjoint chunks and read the current buffer only)
segmented_do_steps(workspace, current, chunks, operation_ranges, step_, index) ==
    IF index >= VecLen(chunks) THEN workspace
    ELSE segmented_do_steps(
             do_step(workspace, current, chunks[index], operation_ranges, index, step_),
             current, chunks, operation_ranges, step_, index + 1)

RECURSIVE segmented_first_sweeps(_, _, _, _)
\* first_sweep on every chunk: the local scan, and the last value of each
segmented_first_sweeps(buf, chunks, index, lefts) ==
    IF index >= VecLen(chunks) THEN [buf |-> buf, lefts |-> lefts]
    ELSE LET scanned == prefix_scan_no_simd(buf, chunks[index].start, chunks[index].end)
         IN  segmented_first_sweeps(
                 scanned, chunks, index + 1,
                 [i \in 0..index |->
                     IF i < index THEN lefts[i] ELSE scanned[chunks[index].end - 1]])

\* second_sweep on every chunk: carries[index - 1] added for index > 0
segmented_second_sweeps(buf, chunks, carries_) ==
    [p \in DOMAIN buf |->
        LET owners == {i \in DOMAIN chunks :
                          i > 0 /\ chunks[i].start <= p /\ p < chunks[i].end}
        IN  IF owners = {} THEN buf[p]
            ELSE buf[p] + carries_[(CHOOSE i \in owners : TRUE) - 1]]

InitSegmented ==
    /\ seg_v \in SegmentLists
    /\ seg_num_threads \in 1..MaxThreads
    /\ seg_alg \in {"hillis_steel_scan", "divide_and_conquer_scan"}
    /\ seg_chunk \in {"chunk", "chunk_all"}
    /\ seg_pc = "call"
    /\ no_segmented_call
    /\ no_scan
    /\ no_chunk_ranges_call
    /\ no_split_vector
    /\ no_thread_pool
    /\ no_ranged_vector
    /\ no_mass_receiver

\* return r, or the abort of the calling thread
segmented_return(r) ==
    /\ seg_pc' = "done"
    /\ seg_ret' = r

\* hillis_steel_scan up to the while loop
segmented_hillis_steel_scan_call ==
    /\ seg_pc = "call"
    /\ seg_alg = "hillis_steel_scan"
    /\ LET vec_ == HeadFlagVec_from_vec(seg_v)
       IN  IF vec_.panic
           THEN segmented_return(Aborted) /\ UNCHANGED seg_locals
           ELSE /\ seg_data' = vec_.data
                /\ seg_workspace' = VecOf(VecLen(vec_.data), 0)
                /\ seg_step' = 1
                /\ seg_pc' = "doubling"
                /\ UNCHANGED <<seg_lefts, seg_ret>>
    /\ UNCHANGED <<seg_args, cr_vars, sv_vars, tp_vars, rv_vars, scanner, mr_vars>>

\* one iteration of the while loop: the dispatch of the pass, its tasks,
\* gather, and the exchange of the buffers
segmented_hillis_steel_pass ==
    /\ seg_pc = "doubling"
    /\ seg_step < VecLen(seg_data)
    /\ LET operation_count == VecLen(seg_data) - seg_step
           rs == segmented_chunk_ranges(operation_count, seg_num_threads)
           split_ranges == [i \in DOMAIN rs |-> rs[i] + seg_step]
           chunks == segmented_chunk(seg_chunk, split_ranges, VecLen(seg_workspace))
       IN  IF ~chunks.some \/ VecLen(chunks.val) > seg_num_threads
           THEN segmented_return(Aborted) /\ UNCHANGED seg_locals
           ELSE LET filled == segmented_do_steps(seg_workspace, seg_data, chunks.val,
                                                 rs, seg_step, 0)
                IN  /\ seg_data' = [i \in DOMAIN filled |->
                                       IF i < seg_step THEN seg_data[i] ELSE filled[i]]
                    /\ seg_workspace' = seg_data
                    /\ seg_step' = seg_step * 2
                    /\ UNCHANGED <<seg_lefts, seg_pc, seg_ret>>
    /\ UNCHANGED <<seg_args, cr_vars, sv_vars, tp_vars, rv_vars, scanner, mr_vars>>

\* after the loop: vec.to_vec()
segmented_hillis_steel_return ==
    /\ seg_pc = "doubling"
    /\ seg_step >= VecLen(seg_data)
    /\ segmented_return(HeadFlagVec_to_vec(seg_data,
                                           HeadFlagVec_from_vec(seg_v).head_flags))
    /\ UNCHANGED <<seg_args, seg_locals, cr_vars, sv_vars, tp_vars, rv_vars, scanner, mr_vars>>

\* divide_and_conquer_scan up to `let lefts = Arc::new(lefts)`
segmented_divide_and_conquer_first_sweep ==
    /\ seg_pc = "call"
    /\ seg_alg = "divide_and_conquer_scan"
    /\ LET vec_ == HeadFlagVec_from_vec(seg_v)
       IN  IF vec_.panic
           THEN segmented_return(Aborted) /\ UNCHANGED seg_locals
           ELSE LET rs == segmented_chunk_ranges(VecLen(vec_.data), seg_num_threads)
                    chunks == segmented_chunk(seg_chunk, rs, VecLen(vec_.data))
                IN  IF ~chunks.some \/ VecLen(chunks.val) > seg_num_threads
                    THEN segmented_return(Aborted) /\ UNCHANGED seg_locals
                    ELSE LET swept == segmented_first_sweeps(vec_.data, chunks.val,
                                                             0, EmptyVec)
                         IN  /\ seg_data' = swept.buf
                             /\ seg_lefts' = prefix_scan_no_simd(swept.lefts, 0,
                                                                 VecLen(swept.lefts))
                             /\ seg_pc' = "second_sweep"
                             /\ UNCHANGED <<seg_workspace, seg_step, seg_ret>>
    /\ UNCHANGED <<seg_args, cr_vars, sv_vars, tp_vars, rv_vars, scanner, mr_vars>>

\* the second dispatch, data.extract()?, vec.to_vec()
segmented_divide_and_conquer_second_sweep ==
    /\ seg_pc = "second_sweep"
    /\ LET rs == segmented_chunk_ranges(VecLen(seg_data), seg_num_threads)
           chunks == segmented_chunk(seg_chunk, rs, VecLen(seg_data))
       IN  IF ~chunks.some \/ VecLen(chunks.val) > seg_num_threads
           THEN segmented_return(Aborted) /\ UNCHANGED seg_locals
           ELSE LET added == segmented_second_sweeps(seg_data, chunks.val, seg_lefts)
                IN  /\ seg_data' = added
                    /\ segmented_return(
                           HeadFlagVec_to_vec(added,
                                              HeadFlagVec_from_vec(seg_v).head_flags))
                    /\ UNCHANGED <<seg_workspace, seg_step, seg_lefts>>
    /\ UNCHANGED <<seg_args, cr_vars, sv_vars, tp_vars, rv_vars, scanner, mr_vars>>

NextSegmented ==
    \/ segmented_hillis_steel_scan_call
    \/ segmented_hillis_steel_pass
    \/ segmented_hillis_steel_return
    \/ segmented_divide_and_conquer_first_sweep
    \/ segmented_divide_and_conquer_second_sweep

SpecSegmented == InitSegmented /\ [][NextSegmented]_vars

\* ---------------------------------------------------------------------
\* segmented_scan.rs: a list of sequences flattened and rebuilt, on its own
\* and around the loop of sequential_scan
\* ---------------------------------------------------------------------
InitHeadFlagVec ==
    /\ seg_v \in SegmentLists
    /\ seg_num_threads = 1
    /\ seg_alg \in {"from_vec", "sequential_scan"}
    /\ seg_chunk = "chunk"
    /\ seg_pc = "call"
    /\ no_segmented_call
    /\ no_scan
    /\ no_chunk_ranges_call
    /\ no_split_vector
    /\ no_thread_pool
    /\ no_ranged_vector
    /\ no_mass_receiver

\* let vec = HeadFlagVec::from_vec(v)
HeadFlagVec_from_vec_call ==
    /\ seg_pc = "call"
    /\ seg_alg = "from_vec"
    /\ LET vec_ == HeadFlagVec_from_vec(seg_v)
       IN  IF vec_.panic
           THEN segmented_return(Aborted) /\ UNCHANGED seg_locals
           ELSE /\ seg_data' = vec_.data
                /\ seg_pc' = "flattened"
                /\ UNCHANGED <<seg_workspace, seg_step, seg_lefts, seg_ret>>
    /\ UNCHANGED <<seg_args, cr_vars, sv_vars, tp_vars, rv_vars, scanner, mr_vars>>

\* vec.to_vec()
HeadFlagVec_to_vec_call ==
    /\ seg_pc = "flattened"
    /\ segmented_return(HeadFlagVec_to_vec(seg_data,
                                           HeadFlagVec_from_vec(seg_v).head_flags))
    /\ UNCHANGED <<seg_args, seg_locals, cr_vars, sv_vars, tp_vars, rv_vars, scanner, mr_vars>>

\* sequential_scan(v)
segmented_sequential_scan_call ==
    /\ seg_pc = "call"
    /\ seg_alg = "sequential_scan"
    /\ segmented_return(segmented_sequential_scan(seg_v))
    /\ UNCHANGED <<seg_args, seg_locals, cr_vars, sv_vars, tp_vars, rv_vars, scanner, mr_vars>>

NextHeadFlagVec ==
    \/ HeadFlagVec_from_vec_call
    \/ HeadFlagVec_to_vec_call
    \/ segmented_sequential_scan_call

SpecHeadFlagVec == InitHeadFlagVec /\ [][NextHeadFlagVec]_vars

\* ---------------------------------------------------------------------
\* One MassReceiver on its own (util/thread_pool.rs): gather() runs on the
\* receiving end of a result channel while the holders of the clones of its
\* Sender send (thread id, result) messages, of any index, and drop them
\* ---------------------------------------------------------------------
\* a `match results[index]` that stores the message whatever the slot holds
gather_recv_overwrite(results, index, msg) ==
    IF index \notin DOMAIN results THEN [ok |-> FALSE, results |-> "panic"]
    ELSE [ok |-> TRUE, results |-> [results EXCEPT ![index] = Some(msg)]]

\* the body of the loop of gather for the message ((index, _), msg):
\* `results` after it (ok), or the way gather ends in it
gather_recv(results, index, msg) ==
    IF index \notin DOMAIN results THEN [ok |-> FALSE, results |-> "panic"]
    ELSE IF results[index].some THEN [ok |-> FALSE, results |-> "RecvError"]
    ELSE [ok |-> TRUE, results |-> [results EXCEPT ![index] = Some(msg)]]

\* MassReceiver::new(receiver, expected_msg_count), then gather(): results
\* is expected_msg_count times None
InitGather ==
    /\ mr_expected_msg_count \in 0..MaxExpected
    /\ mr_channel = <<>>
    /\ mr_senders = TRUE
    /\ mr_results = VecOf(mr_expected_msg_count, None)
    /\ mr_i = 0
    /\ mr_pc = "loop"
    /\ mr_ret = None
    /\ no_scan
    /\ no_chunk_ranges_call
    /\ no_split_vector
    /\ no_thread_pool
    /\ no_ranged_vector
    /\ no_segmented_scan

\* send_channel.send((thread_id, result)) by the holder of a Sender, while
\* the receiver exists
mr_send(index, msg) ==
    /\ mr_pc = "loop"
    /\ mr_senders
    /\ mr_i + Len(mr_channel) < MaxSent
    /\ mr_channel' = Append(mr_channel, [index |-> index, msg |-> msg])
    /\ UNCHANGED <<mr_expected_msg_count, mr_senders, mr_results, mr_i, mr_pc, mr_ret>>
    /\ UNCHANGED <<cr_vars, sv_vars, tp_vars, rv_vars, seg_vars, scanner>>

\* the last clone of the Sender is dropped
mr_drop_senders ==
    /\ mr_pc = "loop"
    /\ mr_senders
    /\ mr_senders' = FALSE
    /\ UNCHANGED <<mr_expected_msg_count, mr_channel, mr_results, mr_i, mr_pc, mr_ret>>
    /\ UNCHANGED <<cr_vars, sv_vars, tp_vars, rv_vars, seg_vars, scanner>>

\* gather returns r
mr_return(r) ==
    /\ mr_ret' = Some(r)
    /\ mr_pc' = "done"

\* one iteration of the loop of gather: recv() takes a message
MassReceiver_gather_recv ==
    /\ mr_pc = "loop"
    /\ mr_i < mr_expected_msg_count
    /\ mr_channel # <<>>
    /\ LET m == Head(mr_channel)
           r == gather_recv(mr_results, m.index, m.msg)
       IN  /\ mr_channel' = Tail(mr_channel)
           /\ IF ~r.ok
              THEN /\ mr_return(r)
                   /\ UNCHANGED <<mr_results, mr_i>>
              ELSE /\ mr_results' = r.results
                   /\ mr_i' = mr_i + 1
                   /\ UNCHANGED <<mr_pc, mr_ret>>
    /\ UNCHANGED <<mr_expected_msg_count, mr_senders>>
    /\ UNCHANGED <<cr_vars, sv_vars, tp_vars, rv_vars, seg_vars, scanner>>

\* recv()? on an empty channel with no Sender left
MassReceiver_gather_disconnected ==
    /\ mr_pc = "loop"
    /\ mr_i < mr_expected_msg_count
    /\ mr_channel = <<>>
    /\ ~mr_senders
    /\ mr_return([ok |-> FALSE, results |-> "RecvError"])
    /\ UNCHANGED <<mr_expected_msg_count, mr_channel, mr_senders, mr_results, mr_i>>
    /\ UNCHANGED <<cr_vars, sv_vars, tp_vars, rv_vars, seg_vars, scanner>>

\* Ok(results.into_iter().map(|x| x.unwrap()).collect()) after the loop
MassReceiver_gather_return ==
    /\ mr_pc = "loop"
    /\ mr_i = mr_expected_msg_count
    /\ IF \A i \in DOMAIN mr_results : mr_results[i].some
       THEN mr_return([ok |-> TRUE,
                       results |-> [i \in DOMAIN mr_results |-> mr_results[i].val]])
       ELSE mr_return([ok |-> FALSE, results |-> "panic"])
    /\ UNCHANGED <<mr_expected_msg_count, mr_channel, mr_senders, mr_results, mr_i>>
    /\ UNCHANGED <<cr_vars, sv_vars, tp_vars, rv_vars, seg_vars, scanner>>

NextGather ==
    \/ \E index \in 0..(MaxExpected - 1), msg \in Values : mr_send(index, msg)
    \/ mr_drop_senders
    \/ MassReceiver_gather_recv
    \/ MassReceiver_gather_disconnected
    \/ MassReceiver_gather_return

SpecGather == InitGather /\ [][NextGather]_vars

\* ---------------------------------------------------------------------
\* The sequential baseline (prefix_scans/mod.rs)
\* ---------------------------------------------------------------------
RECURSIVE sequential_scan_loop(_, _, _)
sequential_scan_loop(v, f, i) ==
    IF i >= VecLen(v) THEN v
    ELSE sequential_scan_loop([v EXCEPT ![i] = func_apply(f, v[i - 1], v[i])], f, i + 1)

sequential_scan_no_simd(v, f) == sequential_scan_loop(v, f, 1)

\* the exclusive form of the baseline: identity first, last element dropped
exclusive_scan(v, f) ==
    LET inclusive == sequential_scan_no_simd(v, f)
    IN  [i \in DOMAIN v |-> IF i = 0 THEN default_value(f) ELSE inclusive[i - 1]]

Len0 == VecLen(input)

\* ---------------------------------------------------------------------
\* Properties
\* ---------------------------------------------------------------------

\* C1: with the default sequential_length 0, blelloch_scan of a non-empty
\* input returns Ok(out) with out[0] = 0 and out[i] = in[0] + ... + in[i-1],
\* i.e. out[1..] is the sequential inclusive scan without its last element,
\* for every worker count.
C1_BlellochExclusiveScan ==
    (pc = "done" /\ alg = "blelloch_scan" /\ sequential_length = 0 /\ Len0 >= 1)
        => /\ outcome = "Ok"
           /\ DOMAIN result = DOMAIN input
           /\ result[0] = 0
           /\ \A i \in 1..(Len0 - 1) :
                 /\ result[i] = slice_sum(input, 0, i)
                 /\ result[i] = sequential_scan_no_simd(input, "add")[i - 1]

\* a tree scan of five values on two workers has returned a non-zero total
C1_Witness ==
    /\ pc = "done"
    /\ alg = "blelloch_scan"
    /\ sequential_length = 0
    /\ num_threads = 2
    /\ Len0 = 5
    /\ outcome = "Ok"
    /\ result[4] = 4

\* C2: hillis_steel_scan of a non-empty input returns Ok(out), out the
\* sequential inclusive running sum, for every length and worker count.
C2_HillisSteelInclusiveScan ==
    (pc = "done" /\ alg = "hillis_steel_scan" /\ Len0 >= 1)
        => /\ outcome = "Ok"
           /\ result = sequential_scan_no_simd(input, "add")

\* C3: for every worker count, the default 1 included, the post-scatter scan
\* of an input that fits one cache block returns Ok(out), out the sequential
\* inclusive running sum.
C3_PostScatterSingleBlock ==
    (/\ pc = "done"
     /\ alg = "divide_and_conquer_post_scatter_scan"
     /\ Len0 >= 1
     /\ Len0 <= cache_chunk_length)
        => /\ outcome = "Ok"
           /\ result = sequential_scan_no_simd(input, "add")

\* C4: for every worker count, the pre-scatter scan of an input that fits one
\* cache block returns Ok(out), out the sequential inclusive running sum.
C4_PreScatterSingleBlock ==
    (/\ pc = "done"
     /\ alg = "divide_and_conquer_pre_scatter_scan"
     /\ Len0 >= 1
     /\ Len0 <= cache_chunk_length)
        => /\ outcome = "Ok"
           /\ result = sequential_scan_no_simd(input, "add")

\* C5: when the input spans two or more cache blocks, a blocked scan that
\* returns Ok returns the sequential inclusive scan of the whole buffer: the
\* running total is carried from one cache block into the next.
C5_CarryAcrossCacheBlocks ==
    (/\ pc = "done"
     /\ alg \in BlockedScans
     /\ Len0 > cache_chunk_length
     /\ outcome = "Ok")
        => result = sequential_scan_no_simd(input, "add")

\* C6: on the same input and configuration the post-scatter and the
\* pre-scatter scan have the same outcome: they never differ in the vector
\* they return, and never does one succeed while the other fails.
C6_PostPreSameOutcome ==
    (/\ pc = "done"
     /\ alg = "divide_and_conquer_pre_scatter_scan"
     /\ prev.some)
        => /\ prev.val.outcome = outcome
           /\ prev.val.result = result

\* C7: every scan of an input shorter than the worker count (1 <= L < T)
\* returns Ok with the correct result (default tuning parameters).
C7_FewerElementsThanWorkers ==
    (/\ pc = "done"
     /\ alg # "blelloch_scan_generic"
     /\ Len0 >= 1
     /\ Len0 < num_threads
     /\ sequential_length = 0
     /\ cache_chunk_length = CacheChunkLengthDefault)
        => /\ outcome = "Ok"
           /\ result = IF alg = "blelloch_scan"
                       THEN exclusive_scan(input, "add")
                       ELSE sequential_scan_no_simd(input, "add")

\* C8: on empty input each of the four scans returns Ok(empty vector), for
\* every worker count.
C8_EmptyInputSucceeds ==
    (/\ pc = "done"
     /\ alg # "blelloch_scan_generic"
     /\ Len0 = 0)
        => /\ outcome = "Ok"
           /\ result = EmptyVec

\* C9: for every associative operator with identity T::default(),
\* concatenation included, blelloch_scan_generic of a non-empty input
\* returns the left-to-right exclusive scan (default sequential_length).
C9_GenericExclusiveScan ==
    (/\ pc = "done"
     /\ alg = "blelloch_scan_generic"
     /\ sequential_length = 0
     /\ Len0 >= 1)
        => /\ outcome = "Ok"
           /\ result = exclusive_scan(generic_arg(func, input), func)

\* C10: blelloch_scan with a sequential_length s > 0 returns the same vector
\* as with s = 0 on the same input and worker count.
C10_SequentialLengthSameResult ==
    (/\ pc = "done"
     /\ alg = "blelloch_scan"
     /\ prev.some)
        => /\ prev.val.outcome = outcome
           /\ prev.val.result = result

\* C11 (as stated): for all len >= 0 and k >= 1, len < k and len = 0
\* included, chunk_ranges(len, k) returns exactly k+1 strictly increasing
\* offsets with offsets[0] = 0 and offsets[k] = len.
C11_ChunkRangesStrictlyIncreasing ==
    cr_offsets.some =>
        LET offsets == cr_offsets.val
        IN  /\ VecLen(offsets) = cr_num_chunks + 1
            /\ offsets[0] = 0
            /\ offsets[cr_num_chunks] = cr_len
            /\ \A i \in 0..(cr_num_chunks - 1) : offsets[i] < offsets[i + 1]

\* C11 (amended): chunk_ranges(len, k) returns exactly k+1 offsets that
\* never decrease, with offsets[0] = 0 and offsets[k] = len; they are
\* strictly increasing exactly when len >= k (for len < k offsets repeat).
C11_ChunkRangesOffsets ==
    cr_offsets.some =>
        LET offsets == cr_offsets.val
        IN  /\ DOMAIN offsets = 0..cr_num_chunks
            /\ offsets[0] = 0
            /\ offsets[cr_num_chunks] = cr_len
            /\ \A i \in 0..(cr_num_chunks - 1) : offsets[i] <= offsets[i + 1]
            /\ (cr_len >= cr_num_chunks)
                   <=> (\A i \in 0..(cr_num_chunks - 1) : offsets[i] < offsets[i + 1])

\* chunk_ranges has returned for fewer elements than chunks, with stragglers
C11_Witness ==
    /\ cr_offsets.some
    /\ cr_len = 2
    /\ cr_num_chunks = 3
    /\ cr_offsets.val[2] = cr_offsets.val[3]

\* C12: the k chunks [offsets[i], offsets[i+1]) of chunk_ranges(len, k) cover
\* [0, len) with no gap and no overlap; the first len mod k chunks have
\* floor(len/k)+1 elements, the others floor(len/k).
C12_ChunkRangesPartition ==
    cr_offsets.some =>
        LET offsets == cr_offsets.val
            k == cr_num_chunks
        IN  /\ DOMAIN offsets = 0..k
            /\ \A p \in 0..(cr_len - 1) :
                   Cardinality({i \in 0..(k - 1) :
                                   offsets[i] <= p /\ p < offsets[i + 1]}) = 1
            /\ \A i \in 0..(k - 1) :
                   /\ offsets[i] >= 0
                   /\ offsets[i + 1] <= cr_len
                   /\ offsets[i + 1] - offsets[i]
                          = (cr_len \div k) + (IF i < cr_len % k THEN 1 ELSE 0)

\* chunk_ranges has returned chunks of two different sizes
C12_Witness ==
    /\ cr_offsets.some
    /\ cr_len = 8
    /\ cr_num_chunks = 3
    /\ cr_offsets.val[1] = 3
    /\ cr_offsets.val[3] - cr_offsets.val[2] = 2

\* the chunks that offsets describe, one per adjacent pair
chunks_of(offsets) ==
    [i \in 0..(VecLen(offsets) - 2) |-> [start |-> offsets[i], end |-> offsets[i + 1]]]

\* offsets out of order, an offset beyond the buffer, or a chunk still live
sv_rejects(offsets) ==
    \/ \E i \in 0..(VecLen(offsets) - 2) : offsets[i] >= offsets[i + 1]
    \/ \E i \in DOMAIN offsets : offsets[i] > VecLen(sv_last.buffer)
    \/ sv_last.chunks # <<>>

\* C13 (as stated): chunk(offsets) returns None, creating no chunk, if the
\* offsets are not strictly increasing, if an offset exceeds the buffer
\* length, or if a chunk of an earlier call is still live; otherwise it
\* returns one chunk per adjacent pair, the i-th viewing exactly
\* [offsets[i], offsets[i+1]).
C13_ChunkNoneOrOnePerPair ==
    sv_last.op = "chunk" =>
        IF sv_rejects(sv_last.arg)
        THEN /\ ~sv_last.ret.some
             /\ sv_chunks = sv_last.chunks
        ELSE /\ sv_last.ret.some
             /\ sv_last.ret.val = chunks_of(sv_last.arg)
             /\ sv_chunks = AsSeq(chunks_of(sv_last.arg))

\* C13 (amended): chunk(offsets) returns None, creating no chunk, if the
\* offsets list is empty, if the offsets are not strictly increasing, if an
\* offset exceeds the buffer length, or if a chunk of an earlier call is
\* still live; otherwise it returns one chunk per adjacent pair, the i-th
\* viewing exactly [offsets[i], offsets[i+1]).
C13_ChunkNoneOrOnePerPairNonEmpty ==
    sv_last.op = "chunk" =>
        IF VecLen(sv_last.arg) = 0 \/ sv_rejects(sv_last.arg)
        THEN /\ ~sv_last.ret.some
             /\ sv_chunks = sv_last.chunks
        ELSE /\ sv_last.ret.some
             /\ sv_last.ret.val = chunks_of(sv_last.arg)
             /\ sv_chunks = AsSeq(chunks_of(sv_last.arg))

\* chunk has split a buffer of two elements into its two halves
C13_Witness ==
    /\ sv_last.op = "chunk"
    /\ sv_last.ret.some
    /\ Len(sv_chunks) = 2
    /\ sv_chunks[1] = [start |-> 0, end |-> 1]
    /\ sv_chunks[2] = [start |-> 1, end |-> 2]

\* C14: after any sequence of chunk, chunk_all, chunk-drop, view_mut and
\* extract operations, any two live chunks reference disjoint index ranges,
\* every live chunk lies inside [0, buffer length), and chunks were created
\* only while no chunk was live.
C14_LiveChunksDisjoint ==
    /\ \A c \in 1..Len(sv_chunks) :
           /\ 0 <= sv_chunks[c].start
           /\ sv_chunks[c].start < sv_chunks[c].end
           /\ sv_chunks[c].end <= VecLen(sv_buffer)
    /\ \A c, d \in 1..Len(sv_chunks) :
           c # d => \/ sv_chunks[c].end <= sv_chunks[d].start
                    \/ sv_chunks[d].end <= sv_chunks[c].start
    /\ (sv_last.op \in {"chunk", "chunk_all"} /\ sv_last.ret.some /\ sv_chunks # <<>>)
           => sv_last.chunks = <<>>

\* two chunks are live and a further chunk call has just been refused
C14_Witness ==
    /\ Len(sv_chunks) = 2
    /\ sv_last.op = "chunk"
    /\ VecLen(sv_last.arg) = 2
    /\ sv_last.chunks = sv_chunks
    /\ sv_last.arg[0] < sv_last.arg[1]
    /\ sv_last.arg[1] <= VecLen(sv_buffer)
    /\ ~sv_last.ret.some

\* C15: extract() returns the buffer if and only if no chunk is live; with
\* a live chunk it returns None and leaves the buffer and the live chunks
\* unchanged; after a successful extract the SplitVector holds an empty
\* buffer.
C15_ExtractOnlySoleOwner ==
    sv_last.op = "extract" =>
        /\ sv_last.ret.some <=> (sv_last.chunks = <<>>)
        /\ sv_last.ret.some =>
               /\ sv_last.ret.val = sv_last.buffer
               /\ sv_buffer = EmptyVec
               /\ sv_chunks = <<>>
        /\ ~sv_last.ret.some =>
               /\ sv_buffer = sv_last.buffer
               /\ sv_chunks = sv_last.chunks

\* extract has been refused while a chunk that was written through is live
C15_Witness ==
    /\ sv_last.op = "extract"
    /\ ~sv_last.ret.some
    /\ Len(sv_chunks) = 1
    /\ sv_buffer = [i \in 0..1 |-> IF i = 1 THEN 1 ELSE 0]

\* the results a gather of handle h owes: one per dispatched message, by index
owed_results(h) ==
    [i \in DOMAIN h.sent |->
        ThreadFunction_call(h.function, <<i, tp_num_threads>>, h.sent[i].argument)]

\* how many messages of thread index the channel holds
arrived(channel, index) ==
    Cardinality({k \in 1..Len(channel) : channel[k].thread_id[1] = index})

\* how many ThreadWorks of dispatch d for thread index have not run yet
waiting(d, index) ==
    (IF index \in DOMAIN tp_queues
     THEN Cardinality({k \in 1..Len(tp_queues[index]) :
                          tp_queues[index][k].dispatch = d})
     ELSE 0)
    + (IF tp_pc.at = "send_local" /\ tp_pc.dispatch = d /\ index = tp_num_threads - 1
       THEN 1 ELSE 0)

\* C16: for every list of m <= worker_count items and every order in which
\* the workers finish, sendall(items, op).gather() returns Ok(results) of
\* length m with results[i] = op((i, worker_count), items[i]); item i is run
\* by worker i.
C16_SendallGatherByIndex ==
    \A d \in 1..Len(tp_handles) :
        LET h == tp_handles[d]
        IN  h.kind = "sendall" =>
                /\ \A k \in 1..Len(h.channel) :
                       /\ h.channel[k].by = h.channel[k].thread_id[1]
                       /\ h.channel[k].thread_id[2] = tp_num_threads
                /\ h.ret.some =>
                       /\ h.ret.val.ok
                       /\ DOMAIN h.ret.val.results = 0..(VecLen(h.arg) - 1)
                       /\ \A i \in 0..(VecLen(h.arg) - 1) :
                              h.ret.val.results[i]
                                  = ThreadFunction_call(h.function,
                                                        <<i, tp_num_threads>>, h.arg[i])

\* a sendall of three items was gathered although the worker of the last
\* item reported first and worker 1 before worker 0
C16_Witness ==
    \E d \in 1..Len(tp_handles) :
        /\ tp_handles[d].kind = "sendall"
        /\ tp_handles[d].ret.some
        /\ Len(tp_handles[d].channel) = 3
        /\ tp_handles[d].channel[1].thread_id[1] = 2
        /\ tp_handles[d].channel[2].thread_id[1] = 1

\* C17: broadcast(value, op) on a pool of N workers dispatches exactly one
\* task to each worker i in 0..N-1, with thread id (i, N) and an equal copy
\* of value, and gather() returns exactly N results in index order; squaring
\* args[index] of [1, 2, 3, 4] on 4 workers gathers values that sum to 30.
C17_BroadcastOnePerWorker ==
    \A d \in 1..Len(tp_handles) :
        LET h == tp_handles[d]
            N == tp_num_threads
        IN  h.kind = "broadcast" =>
                /\ h.expected = N
                /\ DOMAIN h.sent = 0..(N - 1)
                /\ \A i \in DOMAIN h.sent :
                       /\ h.sent[i].thread_id = <<i, N>>
                       /\ h.sent[i].argument = h.arg
                       /\ arrived(h.channel, i) + waiting(d, i) = 1
                /\ h.ret.some =>
                       /\ h.ret.val.ok
                       /\ DOMAIN h.ret.val.results = 0..(N - 1)
                       /\ \A i \in 0..(N - 1) :
                              h.ret.val.results[i]
                                  = ThreadFunction_call(h.function, <<i, N>>, h.arg)
                       /\ h.function = "square_by_index" =>
                              /\ 6 * slice_sum(h.ret.val.results, 0, N)
                                     = N * (N + 1) * (2 * N + 1)
                              /\ N = 4 => slice_sum(h.ret.val.results, 0, N) = 30

\* the broadcast of thread_pool_basic_test has been gathered: 1 + 4 + 9 + 16
C17_Witness ==
    \E d \in 1..Len(tp_handles) :
        /\ tp_handles[d].kind = "broadcast"
        /\ tp_handles[d].function = "square_by_index"
        /\ tp_num_threads = 4
        /\ tp_handles[d].ret.some
        /\ tp_handles[d].ret.val.ok
        /\ slice_sum(tp_handles[d].ret.val.results, 0, 4) = 30

\* C18: when no task fails, each item dispatched by sendall/broadcast is
\* executed exactly once, by exactly one worker, exactly one result per
\* dispatched index reaches the handle of that dispatch, and no result of
\* one dispatch reaches the handle of another.
C18_OneResultPerDispatchedItem ==
    \A d \in 1..Len(tp_handles) :
        LET h == tp_handles[d]
        IN  /\ \A k \in 1..Len(h.channel) :
                   /\ h.channel[k].of = d
                   /\ h.channel[k].thread_id[1] \in DOMAIN h.sent
                   /\ h.channel[k].by = h.channel[k].thread_id[1]
            /\ \A i \in DOMAIN h.sent :
                   /\ arrived(h.channel, i) + waiting(d, i) = 1
                   /\ h.ret.some => arrived(h.channel, i) = 1
            /\ h.ret.some => (h.ret.val.ok /\ h.ret.val.results = owed_results(h))

\* two dispatches were in flight together: the second handle is gathered,
\* the first holds its three results and is not gathered yet
C18_Witness ==
    /\ Len(tp_handles) = 2
    /\ tp_handles[2].ret.some
    /\ tp_handles[2].expected = 3
    /\ ~tp_handles[1].ret.some
    /\ Len(tp_handles[1].channel) = 3
    /\ tp_handles[1].channel[3].thread_id[1] = 0

\* C19: gather() is a full barrier: whenever the calling thread is outside a
\* dispatch (before the next step, sweep, phase or cache block), every task
\* of the previous dispatch has finished and its result has been gathered;
\* inside a dispatch every dispatched task is either still to run or has
\* reported, so the tasks in flight all belong to the one current dispatch.
C19_GatherIsBarrier ==
    /\ pc \notin {"sendall", "gather"} => (queue = EmptyVec /\ chan = EmptyVec)
    /\ pc \in {"sendall", "gather"} =>
           /\ DOMAIN queue \cap DOMAIN chan = {}
           /\ DOMAIN queue \cup DOMAIN chan = 0..(expected - 1)
    /\ pc = "gather" => (num_threads - 1) \notin DOMAIN queue

\* the second dispatch of the second cache block of a pre-scatter scan on two
\* workers has been gathered
C19_Witness ==
    /\ pc = "pre_extract"
    /\ alg = "divide_and_conquer_pre_scatter_scan"
    /\ num_threads = 2
    /\ cache_chunk_start = 2
    /\ VecLen(totals) = 2
    /\ queue = EmptyVec

\* C20: under fair scheduling every gather() returns once all dispatched
\* tasks have reported (the calling thread never waits for ever, whether
\* in gather or while it runs the inline task), and every scan of a finite
\* input comes to its end: the caller and the background workers never
\* deadlock.  The end of a scan is its return, Ok or Err, or the abort of
\* the calling thread on an unwrap.
C20_EveryScanReturns ==
    /\ (pc = "gather") ~> (pc = ret)
    /\ (pc = "sendall") ~> (pc = "gather")
    /\ (pc # "done") ~> (pc = "done")

\* the calling thread waits in gather for the three tasks of a broadcast,
\* which have all reported
C20_Witness ==
    /\ pc = "gather"
    /\ ret = "pre_carries"
    /\ expected = 3
    /\ DOMAIN chan = 0..2
    /\ queue = EmptyVec

\* C21: every scan ends by returning Ok(result) or Err with one of the
\* ScanError values; a partition request that SplitVector::chunk rejects
\* is returned as InvalidChunking by every algorithm and never aborts the
\* calling thread.
C21_ScanEndsOkOrScanError ==
    pc = "done" =>
        outcome \in {"Ok", "BrokenThreadLocking", "FailedThreadInGather",
                     "InvalidChunking"}

\* C22: for a RangedVector built from points p[0] = 0 < p[1] < ... < p[n]
\* = total and n values, get(x) returns the range i with p[i] <= x <
\* p[i+1], with its value, for every x in [0, total), and None for every
\* x >= total.
C22_GetReturnsContainingRange ==
    LET n == VecLen(rv_ranges)
        increasing == /\ n > 0 => rv_ranges[0].start = 0
                      /\ \A i \in DOMAIN rv_ranges :
                             rv_ranges[i].start < rv_ranges[i].end
        total == IF n = 0 THEN 0 ELSE rv_ranges[n - 1].end
        x == rv_last.arg
        r == rv_last.ret
    IN  (rv_last.op = "get" /\ increasing) =>
            IF x < total
            THEN /\ r.some
                 /\ r.val.index \in DOMAIN rv_ranges
                 /\ r.val = rv_ranges[r.val.index]
                 /\ r.val.start <= x
                 /\ x < r.val.end
            ELSE r = None

\* get of the last point of the middle one of three ranges returned that
\* range, whose value is 1
C22_Witness ==
    /\ rv_last.op = "get"
    /\ VecLen(rv_ranges) = 3
    /\ rv_ranges[0].start = 0
    /\ \A i \in DOMAIN rv_ranges : rv_ranges[i].start < rv_ranges[i].end
    /\ rv_last.arg = rv_ranges[1].end - 1
    /\ rv_last.ret.some
    /\ rv_last.ret.val.index = 1
    /\ rv_last.ret.val.value = 1

\* C23: for every slice, of any length (0 and lengths below the worker
\* count included), and every worker count T >= 1, parallel_quicksum_simd
\* returns the sum of all elements; the T partial sums are taken over the
\* ranges [ranges[i], ranges[i+1]), which start at 0, end at the length
\* and follow one another, so they are disjoint and cover the slice once.
C23_QuicksumIsSum ==
    /\ (pc = "done" /\ alg = "parallel_quicksum_simd") =>
           /\ outcome = "Ok"
           /\ result = Cardinality({i \in DOMAIN input : input[i] = 1})
    /\ (pc \in {"sendall", "gather", "quicksum_sum"}
            /\ alg = "parallel_quicksum_simd") =>
           /\ expected = num_threads
           /\ VecLen(ranges) = num_threads + 1
           /\ ranges[0] = 0
           /\ ranges[num_threads] = Len0
           /\ \A i \in 0..(num_threads - 1) : ranges[i] <= ranges[i + 1]
    /\ (pc = "quicksum_sum" /\ alg = "parallel_quicksum_simd") =>
           /\ DOMAIN totals = 0..(num_threads - 1)
           /\ \A i \in DOMAIN totals :
                  totals[i] = Cardinality({p \in ranges[i]..(ranges[i + 1] - 1) :
                                              input[p] = 1})

\* the sum of two elements on three workers, the second element a 1: the
\* third worker summed an empty range
C23_Witness ==
    /\ pc = "done"
    /\ alg = "parallel_quicksum_simd"
    /\ num_threads = 3
    /\ Len0 = 2
    /\ input[1] = 1
    /\ ranges[2] = ranges[3]
    /\ result = 1 + input[0]

\* C24: for every list of sequences the segmented hillis_steel_scan(T, v)
\* and divide_and_conquer_scan(T, v) return what the segmented
\* sequential_scan(v) returns, the running value starting again at every
\* sequence: each output sequence is the inclusive scan of its own input
\* sequence, wherever the sequence boundaries fall.
C24_SegmentedScansMatchSequential ==
    seg_pc = "done" => seg_ret = segmented_sequential_scan(seg_v)

\* a dispatched task has neither reported nor is it still to run: its
\* worker has terminated without sending
worker_failed == DOMAIN queue \cup DOMAIN chan # 0..(expected - 1)

\* C25: if the task of a background worker fails, so that the worker
\* terminates without sending its result, gather() of that dispatch
\* returns an error once the remaining tasks have reported, and the scan
\* returns FailedThreadInGather; gather never returns a result list when
\* an index is missing, and a list it returns has exactly the dispatched
\* indices.
C25_FailedWorkerFailsGather ==
    /\ [][pc = "gather" /\ pc' # "gather" =>
              IF worker_failed
              THEN /\ queue = EmptyVec
                   /\ pc' = "done"
                   /\ outcome' = "FailedThreadInGather"
              ELSE /\ pc' = ret
                   /\ DOMAIN totals' = 0..(expected - 1)]_vars
    /\ (pc = "gather" /\ worker_failed) ~>
           (pc = "done" /\ outcome = "FailedThreadInGather")

\* the first of the three tasks of a broadcast failed, the other two
\* reported, and the scan returned FailedThreadInGather
C25_Witness ==
    /\ pc = "done"
    /\ outcome = "FailedThreadInGather"
    /\ expected = 3
    /\ DOMAIN chan = {1, 2}
    /\ queue = EmptyVec

\* C26 as stated: sendall and broadcast return without waiting for any
\* task to run to completion, so that every task of a dispatch, the inline
\* worker's included, executes between the return of the dispatch call and
\* the return of gather(): a task leaves the queue only while the calling
\* thread is in gather.
C26_TasksRunBetweenDispatchAndGather ==
    [][(\E i \in DOMAIN queue : i \notin DOMAIN queue') => pc = "gather"]_vars

\* C26, amended: the calling thread waits for other threads only inside
\* gather(): outside gather it can always take its next step.  sendall and
\* broadcast hand the items to the background workers without waiting for
\* them, but run the inline worker's task to completion on the calling
\* thread before they return; the tasks of the background workers execute
\* at any time between the hand-over and the return of gather().
C26_OnlyGatherWaits ==
    /\ [](pc \notin {"gather", "done"} => ENABLED caller_step)
    /\ [][/\ (\E i \in DOMAIN queue : i \notin DOMAIN queue') =>
                 pc \in {"sendall", "gather"}
          /\ (pc = "sendall" /\ pc' # "sendall") =>
                 /\ pc' = "gather"
                 /\ (num_threads - 1) \in DOMAIN queue
                 /\ DOMAIN queue' = DOMAIN queue \ {num_threads - 1}
                 /\ (num_threads - 1) \in DOMAIN chan'
          /\ (pc \notin {"sendall", "gather"} /\ pc' = "gather") =>
                 (num_threads - 1) \notin DOMAIN queue']_vars

\* the dispatch has returned with the inline task done while the task of
\* the first background worker is still to run
C26_Witness ==
    /\ pc = "gather"
    /\ num_threads = 3
    /\ 0 \in DOMAIN queue
    /\ 2 \in DOMAIN chan
    /\ 1 \in DOMAIN chan

\* the pairs <<i, partner>> (positions in the vector) combined by the sweep
\* task of chunk c of the current step
pairs_of_chunk(c) ==
    LET len == ranges[c + 1] - ranges[c]
    IN  {<<ranges[c] + i, ranges[c] + pair_of(i, step, len)>> :
            i \in {j \in 0..(len - 1) :
                      j % (step * 2) = 0 /\ pair_of(j, step, len) # -1}}

\* C27: for every length L >= 2, worker count T >= 1 and step 1, 2, 4, ...
\* below L (threshold 0) the offsets of pyramid_ranges_for are strictly
\* increasing, start at step - 1 and end at L, and every interior offset
\* is congruent to step - 1 modulo 2 * step; so every active pair (i, i +
\* step), or tail pair (i, L - 1), lies inside one chunk and is combined
\* exactly once in the sweep step.
C27_PyramidRangesKeepPairsTogether ==
    (alg \in {"blelloch_scan", "blelloch_scan_generic"}
         /\ sequential_length = 0 /\ ranges # EmptyVec) =>
        LET L == VecLen(vec)
            n == VecLen(ranges)
            active == {i \in 0..(L - 2) : i % (step * 2) = step - 1}
        IN  /\ L >= 2 /\ step >= 1 /\ step < L
            /\ ranges[0] = step - 1
            /\ ranges[n - 1] = L
            /\ \A i \in 0..(n - 2) : ranges[i] < ranges[i + 1]
            /\ \A i \in 1..(n - 2) : ranges[i] % (step * 2) = step - 1
            /\ UNION {pairs_of_chunk(c) : c \in 0..(n - 2)}
                   = {<<i, Min(i + step, L - 1)>> : i \in active}
            /\ \A c, d \in 0..(n - 2) :
                   c # d => pairs_of_chunk(c) \cap pairs_of_chunk(d) = {}
            /\ \A c \in 0..(n - 2) : \A pr \in pairs_of_chunk(c) :
                   ranges[c] <= pr[1] /\ pr[1] < pr[2] /\ pr[2] < ranges[c + 1]

\* step 2 of the up-sweep of seven elements on two workers: the second
\* chunk holds the tail pair (5, 6)
C27_Witness ==
    /\ alg = "blelloch_scan"
    /\ sequential_length = 0
    /\ pc = "gather"
    /\ ret = "up_sweep"
    /\ Len0 = 7
    /\ num_threads = 2
    /\ step = 2
    /\ <<5, 6>> \in pairs_of_chunk(1)

\* C28: within one doubling pass of hillis_steel_scan there is no data
\* race.  A task leaves the current buffer as it is and changes the
\* workspace in its own chunk only, to values read from the current
\* buffer; the chunks of the tasks of a pass follow one another from step
\* to L, so they are disjoint and cover exactly [step, L); the buffers are
\* exchanged, with [0, step) copied from the current one, only after
\* gather() has returned, when no task is left.
C28_PassHasNoDataRace ==
    /\ []((alg = "hillis_steel_scan" /\ pc \in {"sendall", "gather"}) =>
            LET n == VecLen(ranges)
            IN  /\ n >= 2
                /\ ranges[0] = 0
                /\ ranges[n - 1] + step = VecLen(vec)
                /\ \A i \in 0..(n - 2) : ranges[i] < ranges[i + 1]
                /\ VecLen(data) = VecLen(vec)
                /\ DOMAIN queue \cup DOMAIN chan = 0..(n - 2)
                /\ \A i \in DOMAIN queue :
                       queue[i].chunk = [start |-> ranges[i] + step,
                                         end |-> ranges[i + 1] + step])
    /\ [][alg = "hillis_steel_scan" =>
            /\ \A i \in DOMAIN queue :
                   i \notin DOMAIN queue' =>
                       /\ data' = data
                       /\ \A p \in DOMAIN vec :
                              vec'[p] =
                                  IF queue[i].chunk.start <= p /\ p < queue[i].chunk.end
                                  THEN data[p - step] + data[p]
                                  ELSE vec[p]
            /\ (data' # data /\ pc # "call") =>
                   /\ pc = "swap"
                   /\ queue = EmptyVec
                   /\ vec' = data
                   /\ \A p \in DOMAIN data :
                          data'[p] = IF p < step THEN data[p] ELSE vec[p]]_vars

\* the pass with step 2 over six elements on two workers: the task of the
\* inline worker has filled its chunk [4, 6) of the workspace, the task of
\* the background worker is still to run
C28_Witness ==
    /\ alg = "hillis_steel_scan"
    /\ pc = "gather"
    /\ num_threads = 2
    /\ Len0 = 6
    /\ step = 2
    /\ DOMAIN queue = {0}
    /\ DOMAIN chan = {1}
    /\ data[2] = 1
    /\ vec[4] = data[2] + data[4]

\* C29: hillis_steel_scan on an input of length L >= 1 performs exactly
\* ceil(log2(L)) dispatch-and-gather passes, with steps 1, 2, 4, ...
\* doubling after each pass, and stops at the first step >= L; for L <= 1
\* it performs no pass.  (step is doubled at the end of each pass, so at
\* the end of the scan it is 2 to the number of passes performed.)
C29_HillisSteelPassCount ==
    /\ (alg = "hillis_steel_scan" /\ pc = "done") =>
           step = Pow2(CeilLog2(Len0))
    /\ (alg = "hillis_steel_scan" /\ pc \notin {"call", "done"}) =>
           /\ \E k \in 0..CeilLog2(Len0) : step = Pow2(k)
           /\ pc \in {"sendall", "gather", "swap"} => step < Len0

\* the local-phase sub-range of the block that holds position p
sub_range_of(p) == CHOOSE k \in 0..(VecLen(ranges) - 2) : ranges[k] <= p /\ p < ranges[k + 1]

\* C30: in the distribution phase of the post-scatter scan, for every block
\* length and worker count, each distribution chunk overlaps at most two
\* local-phase sub-ranges, and once the phase is over every element after
\* the first sub-range has had added to it, exactly once, the carry of its
\* sub-range (the total of all earlier sub-ranges of the block), the
\* elements of the first sub-range being left as the local phase made
\* them.  Stated for the first cache block, whose local phase starts from
\* the caller's data.
C30_DistributionAddsCarryOnce ==
    /\ (alg = "divide_and_conquer_post_scatter_scan"
            /\ pc \in {"sendall", "gather"} /\ ret = "post_extract") =>
           \A i \in DOMAIN queue :
               LET from == queue[i].chunk_start
                   to == from + (queue[i].chunk.end - queue[i].chunk.start)
               IN  Cardinality({k \in DOMAIN carries :
                                   carries[k].start < to /\ carries[k].end > from}) <= 2
    /\ (alg = "divide_and_conquer_post_scatter_scan"
            /\ cache_chunk_start = 0 /\ ranges # EmptyVec
            /\ pc \in {"post_extract", "done"}) =>
           \A p \in 0..(current_length - 1) :
               LET k == sub_range_of(p)
                   local == slice_sum(input, ranges[k], p + 1)
                   carry == slice_sum(input, 0, ranges[k])
               IN  vec[p] = local + carry

\* C31: gather() returns an error, and no result list, as soon as it
\* receives a second result carrying a worker index for which a result is
\* already stored: the iteration that takes such a message ends gather with
\* Err(RecvError), it needs no further message to do so, and a gather that
\* returned Ok(list) never took one.
C31_DuplicateIndexIsRejected ==
    /\ [](mr_pc = "done" /\ mr_ret.val.ok =>
              /\ mr_i = mr_expected_msg_count
              /\ \A i \in DOMAIN mr_results : mr_results[i].some)
    /\ []((mr_pc = "loop" /\ mr_i < mr_expected_msg_count /\ mr_channel # <<>>)
              => ENABLED MassReceiver_gather_recv)
    /\ [][(/\ mr_pc = "loop"
           /\ Len(mr_channel') < Len(mr_channel)
           /\ Head(mr_channel).index \in DOMAIN mr_results
           /\ mr_results[Head(mr_channel).index].some)
          => (/\ mr_pc' = "done"
              /\ mr_ret'.some
              /\ ~mr_ret'.val.ok
              /\ mr_ret'.val.results = "RecvError")]_vars

\* gather has returned Err(RecvError) on the second message of an index,
\* with a message of another index still unread behind it
C31_Witness ==
    /\ mr_pc = "done"
    /\ ~mr_ret.val.ok
    /\ mr_ret.val.results = "RecvError"
    /\ mr_expected_msg_count = 3
    /\ mr_i = 1
    /\ mr_channel # <<>>
    /\ mr_senders

\* the buffer positions [start, end) of the live chunk c
positions_of(c) == sv_chunks[c].start..(sv_chunks[c].end - 1)

\* C32: a write through a chunk for range [start, end) changes only buffer
\* positions inside [start, end), so positions of other chunks or of no
\* chunk keep their value; making and releasing chunks changes nothing in
\* the buffer; and once all chunks are released extract() / view_mut()
\* return the buffer as the writes left it.
C32_ChunkWritesStayInRange ==
    /\ [][(sv_last.op = "none" /\ sv_last'.op = "write") =>
              /\ \A p \in DOMAIN sv_buffer :
                     p \notin positions_of(sv_last'.arg) =>
                         sv_buffer'[p] = sv_buffer[p]
              /\ \E p \in positions_of(sv_last'.arg) :
                     sv_buffer' = [sv_buffer EXCEPT ![p] = 1]]_vars
    /\ [][(sv_last.op = "none" /\ sv_last'.op \in {"chunk", "chunk_all", "drop"}) =>
              sv_buffer' = sv_buffer]_vars
    /\ [][(sv_last.op = "none" /\ sv_last'.op \in {"extract", "view_mut"}
               /\ sv_chunks = <<>>) =>
              /\ sv_last'.ret = Some(sv_buffer)
              /\ sv_last'.op = "extract" => sv_buffer' = EmptyVec]_vars

\* a write through the second chunk of a call has changed a position of its
\* range, the first chunk's positions being as they were
C32_Witness ==
    /\ sv_last.op = "write"
    /\ sv_last.arg = 2
    /\ Len(sv_chunks) = 2
    /\ sv_chunks[2].start > 0
    /\ \E p \in positions_of(2) : sv_buffer[p] = 1 /\ sv_last.buffer[p] = 0
    /\ \A p \in positions_of(1) : sv_buffer[p] = 0

\* C34: in every reachable state the owner count of a SplitVector's buffer
\* equals 1 plus the number of live chunks; a chunk() call that returns
\* None (bad offsets detected part-way through, or chunks outstanding)
\* leaves no additional live chunk behind and the buffer contents
\* unchanged, so a later chunk() or extract() is not blocked by the failed
\* call: with no chunk live, extract() returns the buffer and chunk()
\* refuses only offsets it would refuse on a fresh SplitVector.
C34_OwnerCountIsOnePlusLiveChunks ==
    /\ sv_ref_count = 1 + Len(sv_chunks)
    /\ (sv_last.op \in {"chunk", "chunk_all"} /\ ~sv_last.ret.some) =>
           /\ sv_chunks = sv_last.chunks
           /\ sv_buffer = sv_last.buffer
    /\ (sv_last.op = "extract" /\ sv_last.chunks = <<>>) => sv_last.ret.some
    /\ (sv_last.op = "chunk" /\ sv_last.chunks = <<>> /\ ~sv_last.ret.some) =>
           ~SplitVector_chunk(sv_last.arg, VecLen(sv_last.buffer), 1).some

\* chunk() has returned None at the second pair of its offsets, after it had
\* built the chunk of the first pair, and the caller is the sole owner
C34_Witness ==
    /\ sv_last.op = "chunk"
    /\ ~sv_last.ret.some
    /\ VecLen(sv_last.arg) = 3
    /\ sv_last.arg[0] < sv_last.arg[1]
    /\ sv_last.arg[1] >= sv_last.arg[2]
    /\ sv_last.arg[2] <= VecLen(sv_buffer)
    /\ sv_chunks = <<>>
    /\ sv_ref_count = 1

\* C33: every chunk (and every shared buffer handle) passed to a task is
\* released by the worker before that task's result is sent, so whenever
\* gather() returns Ok the primitive is again the sole owner of the buffer:
\* the following chunk(), view_mut(), extract() or Arc::try_unwrap never
\* fails because of a still-live chunk, for every interleaving of the
\* workers; BrokenThreadLocking is unreachable in all four scans.
C33_SoleOwnerAfterGather ==
    /\ outcome # "BrokenThreadLocking"
    /\ \A index \in DOMAIN chan : index \notin DOMAIN queue
    /\ (pc = "gather" /\ DOMAIN chan = 0..(expected - 1)) => strong_count = 1
    /\ pc \notin {"sendall", "gather"} => strong_count = 1

\* the doubling scan's gather has returned the results of three workers and
\* the caller, sole owner again, is about to extract the workspace
C33_Witness ==
    /\ alg = "hillis_steel_scan"
    /\ pc = "swap"
    /\ num_threads = 3
    /\ VecLen(totals) = 3
    /\ strong_count = 1

\* C35: in every scan, for every input length, worker count, sequential
\* threshold and cache_chunk_length, no dispatch hands sendall more items
\* than the pool has workers, so every item index maps to an existing worker
\* and every gathered result index is below the expected result count.
C35_NoMoreItemsThanWorkers ==
    /\ expected <= num_threads
    /\ \A index \in DOMAIN queue : index < num_threads /\ index < expected
    /\ \A index \in DOMAIN chan : index < expected
    /\ \A index \in DOMAIN totals : index < num_threads

\* a sweep of the tree scan has handed one item to each of three workers,
\* and all three results are in the channel
C35_Witness ==
    /\ alg = "blelloch_scan"
    /\ pc = "gather"
    /\ num_threads = 3
    /\ expected = num_threads
    /\ DOMAIN chan = 0..(expected - 1)

\* C36: a pool created with N >= 1 workers always has exactly N workers,
\* N-1 background ones with indices 0..N-2 and the inline one with the
\* highest index N-1; in sendall and broadcast the inline task starts only
\* after the items of all lower indices have been enqueued to their
\* background workers, so background tasks can run while the caller
\* executes its own share, and when fewer than N items are sent the inline
\* worker runs nothing.
C36_InlineWorkerIsLast ==
    LET N == tp_num_threads
    IN  /\ N >= 1
        /\ DOMAIN tp_queues = 0..(N - 2)
        /\ \A d \in 1..Len(tp_handles) :
               LET h == tp_handles[d]
               IN  /\ VecLen(h.sent) <= N
                   /\ \A k \in 1..Len(h.channel) :
                          /\ h.channel[k].by \in 0..(N - 1)
                          /\ h.channel[k].by = N - 1 => VecLen(h.sent) = N
        /\ tp_pc.at = "send_local" =>
               LET h == tp_handles[tp_pc.dispatch]
               IN  /\ VecLen(h.sent) = N
                   /\ arrived(h.channel, N - 1) = 0
                   /\ \A i \in 0..(N - 2) :
                          /\ arrived(h.channel, i) + waiting(tp_pc.dispatch, i) = 1
                          /\ waiting(tp_pc.dispatch, i) = 1 => ENABLED RemoteThread_recv(i)

\* a sendall of two items on three workers has been gathered, the inline
\* worker having run none of them, and the caller of a following broadcast
\* is about to run its own share while one background worker has finished
\* and the other has its item waiting
C36_Witness ==
    /\ tp_num_threads = 3
    /\ Len(tp_handles) = 2
    /\ tp_handles[1].kind = "sendall"
    /\ VecLen(tp_handles[1].sent) = 2
    /\ tp_handles[1].ret.some
    /\ tp_pc = [at |-> "send_local", dispatch |-> 2]
    /\ tp_handles[2].kind = "broadcast"
    /\ Len(tp_handles[2].channel) = 1
    /\ waiting(2, 0) + waiting(2, 1) = 1

\* C37: loop invariant of the doubling scan: after the pass with step s has
\* been gathered and the buffers exchanged (the loop is at its head again,
\* with step = 2s), current[i] equals the sum of input[max(0, i-2s+1) ..= i]
\* for every position i; in particular every position below 2s already
\* holds its final inclusive prefix sum.
C37_DoublingLoopInvariant ==
    (alg = "hillis_steel_scan" /\ pc = "doubling") =>
        \A i \in DOMAIN data :
            /\ data[i] = slice_sum(input, IF i - step + 1 > 0 THEN i - step + 1 ELSE 0,
                                   i + 1)
            /\ i < step => data[i] = slice_sum(input, 0, i + 1)

\* two passes (steps 1 and 2) of two workers over six ones are done: the
\* positions from 3 on hold the sum of a window of four, not yet their
\* prefix sum
C37_Witness ==
    /\ alg = "hillis_steel_scan"
    /\ pc = "doubling"
    /\ num_threads = 2
    /\ step = 4
    /\ VecLen(input) = 6
    /\ data[2] = 3
    /\ data[3] = 4
    /\ data[5] = 4

\* C38: flattening round-trips: for every list v of sequences, including
\* lists that contain empty sequences, HeadFlagVec::from_vec(v).to_vec()
\* returns Some(v); the flattened data has exactly one start flag per
\* sequence, at the position of that sequence's first element.
C38_FlatteningRoundTrips ==
    /\ (seg_alg = "from_vec" /\ seg_pc # "call") =>
           LET h == HeadFlagVec_from_vec(seg_v)
           IN  /\ ~h.panic
               /\ Cardinality({p \in DOMAIN h.head_flags : h.head_flags[p]})
                      = VecLen(seg_v)
               /\ \A k \in DOMAIN seg_v :
                      /\ flat_len(seg_v, k) \in DOMAIN h.head_flags
                      /\ h.head_flags[flat_len(seg_v, k)]
    /\ (seg_alg = "from_vec" /\ seg_pc = "done") =>
           /\ seg_ret.some
           /\ seg_ret.val = seg_v

====
